---- MODULE Spec2Model ----
(***************************************************************************)
(* PipeVision: CAD ingestion (DWGParser.parse) and the export adapters     *)
(* (GeoJSON, CSV, glTF, FBX) with the generate_export unit of work.        *)
(*                                                                         *)
(* Lengths are integers in units of 0.0001 drawing units, so the source's  *)
(* 0.001 thresholds are the integer 10.  Optional values (Python None) are *)
(* sequences: <<>> is None, <<v>> is the value v.                          *)
(***************************************************************************)
EXTENDS Integers, Sequences, FiniteSets, TLC

VARIABLES
    parse_pc,     \* position inside DWGParser.parse
    pin,          \* the inputs of one parse call: file, tools, drawing
    fs,           \* the files that exist (ingestion side)
    dxf_path,     \* parse's local dxf_path
    result,       \* parse's ParseResult
    layer_types   \* _classify_entities' local layer name -> asset type map

pvars == <<parse_pc, pin, fs, dxf_path, result, layer_types>>

VARIABLES
    export_pc,    \* position inside one export call
    xin,          \* the inputs of one export call: entry point, format, assets,
                  \* options and what the collaborators do
    files,        \* export side: path -> content of the files that exist
    ret,          \* what the adapter's export() returned, None before it returns
    task_result,  \* the dict generate_export returned, None before it returns
    calls         \* the FBXExporter methods entered so far

xvars == <<export_pc, xin, files, ret, task_result, calls>>

VARIABLES
    units         \* concurrent generate_export calls of one project: format ->
                  \* position, file operations still to come, return value,
                  \* returned dict, paths touched

VARIABLES
    task,         \* one process_dwg_upload call: position, task states reported,
                  \* outcome of the preview, returned dict
    jobs          \* concurrent ingestion calls for one uploaded .dwg file:
                  \* id -> position, tool outcomes, parse result

vars == <<pvars, xvars, units, task, jobs>>

None == <<>>
Some(v) == <<v>>

----------------------------------------------------------------------------
(* Bounds of the model *)

MaxEntities == 2

----------------------------------------------------------------------------
(* Text: strings are sequences of characters so that substring search and  *)
(* upper-casing are computed, not assumed.                                 *)

LowerChars == <<"a","b","c","d","e","f","g","h","i","j","k","l","m","n","o","p","q","r","s","t","u","v","w","x","y","z">>
UpperChars == <<"A","B","C","D","E","F","G","H","I","J","K","L","M","N","O","P","Q","R","S","T","U","V","W","X","Y","Z">>


\* str.upper() on one character
UpperChar(c) ==
    IF \E i \in 1..Len(LowerChars) : LowerChars[i] = c
    THEN UpperChars[CHOOSE i \in 1..Len(LowerChars) : LowerChars[i] = c]
    ELSE c

\* str.upper()
Upper(s) == [i \in 1..Len(s) |-> UpperChar(s[i])]

\* Python's  kw in s  on strings
Contains(s, kw) ==
    \E i \in 1..(Len(s) - Len(kw) + 1) : SubSeq(s, i, i + Len(kw) - 1) = kw

LayerStormDrainSS == <<"S","T","O","R","M","_","D","R","A","I","N","_","S","S">>
LayerStorm == <<"s","t","o","r","m">>
LayerWaterMain == <<"W","a","t","e","r","_","M","a","i","n">>
LayerZero == <<"0">>
LayerFoTel == <<"F","o","_","T","e","l">>
LayerGas == <<"G","A","S">>

----------------------------------------------------------------------------
(* DWGParser.ASSET_TYPE_KEYWORDS, in the dict's insertion order *)

ASSET_TYPE_KEYWORDS ==
  << [asset_type |-> "sewer", keywords |->
        << <<"s","e","w","e","r">>,
           <<"s","a","n">>,
           <<"s","a","n","i","t","a","r","y">>,
           <<"s","s">>,
           <<"s","w","r">> >>],
     [asset_type |-> "storm", keywords |->
        << <<"s","t","o","r","m">>,
           <<"d","r","a","i","n">>,
           <<"s","d">>,
           <<"s","t","m">>,
           <<"d","r","a","i","n","a","g","e">> >>],
     [asset_type |-> "potable", keywords |->
        << <<"w","a","t","e","r">>,
           <<"p","o","t","a","b","l","e">>,
           <<"w","t","r">>,
           <<"w","m">>,
           <<"d","o","m","e","s","t","i","c">> >>],
     [asset_type |-> "gas", keywords |->
        << <<"g","a","s">>,
           <<"n","a","t","u","r","a","l">>,
           <<"n","g">>,
           <<"f","u","e","l">> >>],
     [asset_type |-> "electric", keywords |->
        << <<"e","l","e","c","t","r","i","c">>,
           <<"e","l","e","c">>,
           <<"p","o","w","e","r">>,
           <<"h","v">>,
           <<"l","v">>,
           <<"m","v">> >>],
     [asset_type |-> "telecom", keywords |->
        << <<"t","e","l","e","c","o","m">>,
           <<"t","e","l","e","p","h","o","n","e">>,
           <<"t","e","l">>,
           <<"c","o","m","m">>,
           <<"c","a","b","l","e">> >>],
     [asset_type |-> "fiber", keywords |->
        << <<"f","i","b","e","r">>,
           <<"f","i","b","r","e">>,
           <<"f","o">>,
           <<"o","p","t","i","c","a","l">> >>] >>


\* any(kw.upper() in layer_name for kw in keywords)
KeywordMatch(layer_name, keywords) ==
    \E k \in 1..Len(keywords) : Contains(layer_name, Upper(keywords[k]))

\* the for ... break loop over ASSET_TYPE_KEYWORDS.items(), from entry i on
RECURSIVE ScanTable(_, _)
ScanTable(layer_name, i) ==
    IF i > Len(ASSET_TYPE_KEYWORDS) THEN None
    ELSE IF KeywordMatch(layer_name, ASSET_TYPE_KEYWORDS[i].keywords)
         THEN Some(ASSET_TYPE_KEYWORDS[i].asset_type)
         ELSE ScanTable(layer_name, i + 1)

\* the same loop with the break lost: a later matching entry overrides
RECURSIVE ScanTableNoBreak(_, _, _)
ScanTableNoBreak(layer_name, i, found) ==
    IF i > Len(ASSET_TYPE_KEYWORDS) THEN found
    ELSE IF KeywordMatch(layer_name, ASSET_TYPE_KEYWORDS[i].keywords)
         THEN ScanTableNoBreak(layer_name, i + 1, Some(ASSET_TYPE_KEYWORDS[i].asset_type))
         ELSE ScanTableNoBreak(layer_name, i + 1, found)

ClassifyLayerLastWins(name) == ScanTableNoBreak(Upper(name), 1, None)

\* the asset type one layer gets: layer_name = layer["name"].upper(), then the scan
ClassifyLayer(name) == ScanTable(Upper(name), 1)

\* layer_types as built by the first loop of _classify_entities
BuildLayerTypes(layers) ==
    [n \in {layers[i].name : i \in {j \in 1..Len(layers) :
                                      ClassifyLayer(layers[j].name) # None}}
        |-> ClassifyLayer(n)[1]]

\* the second loop of _classify_entities
ApplyLayerTypes(entities, types) ==
    [i \in 1..Len(entities) |->
        IF entities[i].layer \in DOMAIN types
        THEN [entities[i] EXCEPT !.suggested_type = Some(types[entities[i].layer])]
        ELSE entities[i]]

----------------------------------------------------------------------------
(* The drawing document handed over by the CAD library *)

DEPTH_EPS == 10       \* 0.001 drawing units
ROTATION_EPS == 100   \* 0.1 degree, in thousandths of a degree

SupportedKinds == {"LINE", "LWPOLYLINE", "POLYLINE", "CIRCLE", "ARC"}

NorthArrowName == <<"N","o","r","t","h","_","A","r","r","o","w">>
NoName == <<>>

RawEntity(kind, layer, pts, fault, name, rotation) ==
    [kind |-> kind, layer |-> layer, pts |-> pts, fault |-> fault,
     name |-> name, rotation |-> rotation]

EntityPool ==
    { RawEntity("LINE", LayerStormDrainSS, << <<0, 0, 0>>, <<100000, 50000, 0>> >>, FALSE, NoName, 0),
      RawEntity("POLYLINE", LayerZero, << <<0, 0, 10>>, <<5, 5, 0>> >>, FALSE, NoName, 0),
      RawEntity("CIRCLE", LayerWaterMain, << <<-30000, 80000, -20000>> >>, FALSE, NoName, 0),
      RawEntity("TEXT", LayerWaterMain, << <<-90000, -90000, 7>> >>, FALSE, NoName, 0),
      RawEntity("LINE", LayerGas, << <<1, 1, 1>>, <<2, 2, 2>> >>, TRUE, NoName, 0),
      RawEntity("INSERT", LayerZero, << <<0, 0, 0>> >>, FALSE, NorthArrowName, 30000),
      RawEntity("LWPOLYLINE", LayerGas, <<>>, FALSE, NoName, 0) }

RECURSIVE SeqsUpTo(_, _)
SeqsUpTo(S, n) ==
    IF n = 0 THEN {<<>>}
    ELSE LET shorter == SeqsUpTo(S, n - 1)
         IN shorter \cup {Append(q, x) : q \in {r \in shorter : Len(r) = n - 1}, x \in S}

Layer(name, on, frozen) == [name |-> name, is_on |-> on, is_frozen |-> frozen]

\* header profiles: $INSUNITS, doc.geodata, the CRS header variables that are
\* set (in lookup order), $UCSXDIR
Header(insunits, geodata, crs_vars, ucsxdir) ==
    [insunits |-> insunits, geodata |-> geodata, crs_vars |-> crs_vars,
     ucsxdir |-> ucsxdir]

\* the layer table and header of the drawings considered
DrawingFrames ==
    { [layers |-> << Layer(LayerZero, TRUE, FALSE) >>,
       header |-> Header(0, None, <<>>, None)],
      [layers |-> << Layer(LayerZero, TRUE, FALSE), Layer(LayerStormDrainSS, TRUE, FALSE) >>,
       header |-> Header(6, Some("EPSG:2263"), << <<"$PROJCRS", "EPSG:32633">> >>,
                         Some(<<1, 1>>))],
      [layers |-> << Layer(LayerStorm, TRUE, FALSE), Layer(LayerWaterMain, FALSE, TRUE) >>,
       header |-> Header(9, None, << <<"$COORDINATE_SYSTEM", "NAD83">>,
                                     <<"$PROJCRS", "EPSG:32633">> >>,
                         Some(<<1000, 1>>))],
      [layers |-> << Layer(LayerFoTel, TRUE, FALSE), Layer(LayerGas, TRUE, FALSE),
                     Layer(LayerStormDrainSS, TRUE, FALSE) >>,
       header |-> Header(2, None, <<>>, None)] }

ValveName == <<"V","a","l","v","e">>
SiteArrowName == <<"s","i","t","e","_","n","_","a","r","r","o","w">>

Insert(name, rotation) ==
    RawEntity("INSERT", LayerZero, << <<0, 0, 0>> >>, FALSE, name, rotation)

\* modelspaces with several block insertions
InsertLists ==
    { << Insert(ValveName, 45000), Insert(SiteArrowName, 90000),
         Insert(NorthArrowName, 30000) >>,
      << Insert(SiteArrowName, 0) >>,
      << Insert(ValveName, 45000) >> }

Docs ==
    { [layers |-> f.layers, entities |-> e, header |-> f.header] :
        f \in DrawingFrames, e \in SeqsUpTo(EntityPool, MaxEntities) \cup InsertLists }

EmptyDoc == [layers |-> <<>>, entities |-> <<>>, header |-> Header(0, None, <<>>, None)]


----------------------------------------------------------------------------
(* DWGParser: the pure steps *)

NewParseResult ==
    [success |-> FALSE, errors |-> <<>>, dxf_version |-> None, units |-> None,
     has_crs |-> FALSE, detected_crs |-> None, has_depth |-> FALSE,
     has_rotation |-> FALSE, rotation_degrees |-> 0,
     layers |-> <<>>, entities |-> <<>>, bounds |-> None,
     missing_fields |-> <<>>]

\* _get_units: units_map.get(units_code, "unknown")
GetUnits(doc) ==
    LET units_map == <<"inches", "feet", "miles", "millimeters", "centimeters",
                       "meters", "kilometers">>
        code == doc.header.insunits
    IN IF code = 0 THEN "unitless"
       ELSE IF code \in 1..Len(units_map) THEN units_map[code]
       ELSE "unknown"

\* _extract_layers
ExtractLayers(doc) == doc.layers

\* the points a supported entity yields; LWPolyline vertices are 2-D (z = 0)
EntityPoints(e) ==
    IF e.kind = "LWPOLYLINE"
    THEN [i \in 1..Len(e.pts) |-> <<e.pts[i][1], e.pts[i][2], 0>>]
    ELSE e.pts

\* z_values = [p[2] for p in points if p[2] != 0]
RECURSIVE ZValues(_)
ZValues(points) ==
    IF points = <<>> THEN <<>>
    ELSE IF Head(points)[3] # 0
         THEN <<Head(points)[3]>> \o ZValues(Tail(points))
         ELSE ZValues(Tail(points))

\* _extract_single_entity without the except clause: the entity that raised
\* is recorded like any other
ExtractSingleEntityNoCatch(e, handle) ==
    IF e.kind \notin SupportedKinds THEN None
    ELSE IF EntityPoints(e) = <<>> THEN None
    ELSE Some([handle |-> handle, entity_type |-> e.kind, layer |-> e.layer,
               points |-> EntityPoints(e),
               suggested_type |-> None,
               has_depth |-> Len(ZValues(EntityPoints(e))) > 0,
               depth_values |-> ZValues(EntityPoints(e))])

\* _extract_single_entity: None for an unsupported kind, for no points and for
\* a fault raised while reading the entity (caught and logged)
ExtractSingleEntity(e, handle) ==
    IF e.fault THEN None
    ELSE IF e.kind \notin SupportedKinds THEN None
    ELSE IF EntityPoints(e) = <<>> THEN None
    ELSE Some([handle |-> handle, entity_type |-> e.kind, layer |-> e.layer,
               points |-> EntityPoints(e),
               suggested_type |-> None,
               has_depth |-> Len(ZValues(EntityPoints(e))) > 0,
               depth_values |-> ZValues(EntityPoints(e))])

\* _extract_entities: the modelspace loop, from entity i on
RECURSIVE ExtractFrom(_, _)
ExtractFrom(raw, i) ==
    IF i > Len(raw) THEN <<>>
    ELSE ExtractSingleEntity(raw[i], i) \o ExtractFrom(raw, i + 1)

ExtractEntities(doc) == ExtractFrom(doc.entities, 1)

SetMin(S) == CHOOSE m \in S : \A x \in S : m <= x
SetMax(S) == CHOOSE m \in S : \A x \in S : m >= x

\* _calculate_bounds with the running minimum and maximum started at the origin
CalculateBoundsFromOrigin(entities) ==
    LET xs == {0} \cup UNION {{entities[i].points[j][1] : j \in 1..Len(entities[i].points)} :
                                i \in 1..Len(entities)}
        ys == {0} \cup UNION {{entities[i].points[j][2] : j \in 1..Len(entities[i].points)} :
                                i \in 1..Len(entities)}
    IN Some([min_x |-> SetMin(xs), max_x |-> SetMax(xs),
             min_y |-> SetMin(ys), max_y |-> SetMax(ys)])

\* _calculate_bounds: None when no entity has a point
CalculateBounds(entities) ==
    LET xs == UNION {{entities[i].points[j][1] : j \in 1..Len(entities[i].points)} :
                       i \in 1..Len(entities)}
        ys == UNION {{entities[i].points[j][2] : j \in 1..Len(entities[i].points)} :
                       i \in 1..Len(entities)}
    IN IF xs # {} /\ ys # {}
       THEN Some([min_x |-> SetMin(xs), max_x |-> SetMax(xs),
                  min_y |-> SetMin(ys), max_y |-> SetMax(ys)])
       ELSE None

\* _detect_crs: geodata first, then the header variables in lookup order
DetectCrs(doc) ==
    LET h == doc.header
        names == <<"$PROJECTNAME", "$PROJCRS", "$COORDINATE_SYSTEM">>
        hits == {k \in 1..Len(names) :
                   \E v \in 1..Len(h.crs_vars) : h.crs_vars[v][1] = names[k]}
        first == SetMin(hits)
        value == h.crs_vars[CHOOSE v \in 1..Len(h.crs_vars) :
                              h.crs_vars[v][1] = names[first]][2]
    IN IF h.geodata # None THEN <<TRUE, h.geodata>>
       ELSE IF hits # {} THEN <<TRUE, Some(value)>>
       ELSE <<FALSE, None>>

Abs(n) == IF n < 0 THEN -n ELSE n

\* _check_depth without the test of line 401: any recorded z counts
CheckDepthNonZero(entities) ==
    \E i \in 1..Len(entities) :
        entities[i].has_depth /\ entities[i].depth_values # <<>>

\* _check_depth
CheckDepth(entities) ==
    \E i \in 1..Len(entities) :
        /\ entities[i].has_depth
        /\ entities[i].depth_values # <<>>
        /\ \E k \in 1..Len(entities[i].depth_values) :
               Abs(entities[i].depth_values[k]) > DEPTH_EPS

\* math.degrees(math.atan2(y, x)) in thousandths of a degree, for the
\* direction vectors <<x, y>> of HeaderPool
Atan2Deg(v) ==
    IF v = <<1, 1>> THEN 45000
    ELSE IF v = <<1000, 1>> THEN 57
    ELSE 0

NorthArrowTokens ==
    << <<"N","O","R","T","H">>,
       <<"N","O","R","T","H","A","R","R","O","W">>,
       <<"N","_","A","R","R","O","W">>,
       <<"N","O","R","T","H","_","A","R","R","O","W">> >>

\* _detect_rotation with the north-arrow search before the UCS test
DetectRotationArrowFirst(doc) ==
    LET ucs == doc.header.ucsxdir
        arrows == {i \in 1..Len(doc.entities) :
                     /\ doc.entities[i].kind = "INSERT"
                     /\ \E t \in 1..Len(NorthArrowTokens) :
                            Contains(Upper(doc.entities[i].name), NorthArrowTokens[t])}
    IN IF arrows # {} THEN <<TRUE, doc.entities[SetMin(arrows)].rotation>>
       ELSE IF ucs # None /\ Abs(Atan2Deg(ucs[1])) > ROTATION_EPS
       THEN <<TRUE, Atan2Deg(ucs[1])>>
       ELSE <<FALSE, 0>>

\* _detect_rotation: the UCS X direction first, then the first north-arrow
\* block insertion of the modelspace
DetectRotation(doc) ==
    LET ucs == doc.header.ucsxdir
        arrows == {i \in 1..Len(doc.entities) :
                     /\ doc.entities[i].kind = "INSERT"
                     /\ \E t \in 1..Len(NorthArrowTokens) :
                            Contains(Upper(doc.entities[i].name), NorthArrowTokens[t])}
    IN IF ucs # None /\ Abs(Atan2Deg(ucs[1])) > ROTATION_EPS
       THEN <<TRUE, Atan2Deg(ucs[1])>>
       ELSE IF arrows # {} THEN <<TRUE, doc.entities[SetMin(arrows)].rotation>>
       ELSE <<FALSE, 0>>

\* _determine_missing_fields, on the result as it stands when it is called
DetermineMissingFields(r) ==
    (IF ~r.has_depth THEN <<"depth">> ELSE <<>>)
    \o (IF ~r.has_crs THEN <<"crs">> ELSE <<>>)
    \o (IF ~r.has_rotation THEN <<"rotation">> ELSE <<>>)
    \o (IF ~\E i \in 1..Len(r.entities) : r.entities[i].suggested_type # None
        THEN <<"labels">> ELSE <<>>)


----------------------------------------------------------------------------
(* DWGParser.parse as a sequence of steps.  parse_pc names the statement    *)
(* about to run; "done" is the return of the ParseResult.                  *)

\* what the drawing read and the later steps do: the read fails, a later step
\* raises, or all succeed; the drawing matters only when it is read
ReadCases ==
    { [read |-> "ok", fault |-> f, doc |-> d] :
        f \in {"none", "extract", "classify"}, d \in Docs }
    \cup { [read |-> r, fault |-> "none", doc |-> EmptyDoc] :
             r \in {"dxf_error", "io_error"} }

NoRead == [read |-> "ok", fault |-> "none", doc |-> EmptyDoc]

ParseInput(suffix, exists, oda, sibling, conv, rc) ==
    [suffix |-> suffix, exists |-> exists, oda |-> oda, sibling |-> sibling,
     conv |-> conv, read |-> rc.read, fault |-> rc.fault, doc |-> rc.doc]

ParseInputs ==
    \* the file does not exist
    { ParseInput(sfx, FALSE, FALSE, FALSE, "none", NoRead) : sfx \in {"dwg", "dxf"} }
    \cup
    \* a .dxf upload
    { ParseInput("dxf", TRUE, FALSE, FALSE, "none", rc) : rc \in ReadCases }
    \cup
    \* a .dwg upload without the converter: the sibling .dxf, if any, is used
    { ParseInput("dwg", TRUE, FALSE, TRUE, "none", rc) : rc \in ReadCases }
    \cup
    { ParseInput("dwg", TRUE, FALSE, FALSE, "none", NoRead) }
    \cup
    \* a .dwg upload with the converter installed
    { ParseInput("dwg", TRUE, TRUE, FALSE, "output", rc) : rc \in ReadCases }
    \cup
    { ParseInput("dwg", TRUE, TRUE, sib, c, NoRead) :
        sib \in BOOLEAN, c \in {"no_output", "timeout", "error"} }

ParseInit ==
    /\ parse_pc = "start"
    /\ pin \in ParseInputs
    /\ fs = (IF pin.exists THEN {"input"} ELSE {})
            \cup (IF pin.sibling THEN {"sibling_dxf"} ELSE {})
    /\ dxf_path = "none"
    /\ result = NewParseResult
    /\ layer_types = <<>>

\* an error return that records no error
FailSilently(msg) ==
    /\ result' = result
    /\ parse_pc' = "done"

\* the return of an error result
Fail(msg) ==
    /\ result' = [result EXCEPT !.errors = Append(@, msg)]
    /\ parse_pc' = "done"

\* lines 115-130 up to the conversion call: the existence check and the
\* choice of dxf_path for a file that is not a .dwg
ParseStart ==
    /\ parse_pc = "start"
    /\ IF "input" \notin fs
       THEN /\ Fail("File not found")
            /\ UNCHANGED dxf_path
       ELSE IF pin.suffix = "dwg"
       THEN /\ parse_pc' = "convert"
            /\ UNCHANGED <<dxf_path, result>>
       ELSE /\ dxf_path' = "input"
            /\ parse_pc' = "read"
            /\ UNCHANGED result
    /\ UNCHANGED <<pin, fs, layer_types>>
    /\ UNCHANGED <<xvars, units, task, jobs>>

\* _convert_dwg_to_dxf and the caller's None check (lines 125-128)
ConvertDwgToDxf ==
    /\ parse_pc = "convert"
    /\ IF ~pin.oda
       THEN IF "sibling_dxf" \in fs
            THEN /\ dxf_path' = "sibling_dxf"
                 /\ parse_pc' = "read"
                 /\ UNCHANGED <<fs, result>>
            ELSE /\ Fail("Failed to convert DWG to DXF")
                 /\ UNCHANGED <<fs, dxf_path>>
       ELSE IF pin.conv = "output"
            THEN /\ fs' = fs \cup {"tmp_dxf"}
                 /\ dxf_path' = "tmp_dxf"
                 /\ parse_pc' = "read"
                 /\ UNCHANGED result
            ELSE /\ Fail("Failed to convert DWG to DXF")
                 /\ UNCHANGED <<fs, dxf_path>>
    /\ UNCHANGED <<pin, layer_types>>
    /\ UNCHANGED <<xvars, units, task, jobs>>

\* ezdxf.readfile (line 133) with the two except clauses of parse
ReadFile ==
    /\ parse_pc = "read"
    /\ IF dxf_path \notin fs \/ pin.read = "io_error"
       THEN Fail("Unexpected error")
       ELSE IF pin.read = "dxf_error"
       THEN Fail("DXF parsing error")
       ELSE /\ parse_pc' = "extract"
            /\ UNCHANGED result
    /\ UNCHANGED <<pin, fs, dxf_path, layer_types>>
    /\ UNCHANGED <<xvars, units, task, jobs>>

\* lines 136-155: version, units, layers, entities, bounds, CRS, depth, rotation
ExtractInfo ==
    /\ parse_pc = "extract"
    /\ IF pin.fault = "extract"
       THEN Fail("Unexpected error")
       ELSE LET doc == pin.doc
                entities == ExtractEntities(doc)
                crs == DetectCrs(doc)
                rot == DetectRotation(doc)
            IN /\ result' = [result EXCEPT
                    !.dxf_version = Some("AC1032"),
                    !.units = Some(GetUnits(doc)),
                    !.layers = ExtractLayers(doc),
                    !.entities = entities,
                    !.bounds = CalculateBounds(entities),
                    !.has_crs = crs[1],
                    !.detected_crs = crs[2],
                    !.has_depth = CheckDepth(entities),
                    !.has_rotation = rot[1],
                    !.rotation_degrees = rot[2]]
               /\ parse_pc' = "missing"
    /\ UNCHANGED <<pin, fs, dxf_path, layer_types>>
    /\ UNCHANGED <<xvars, units, task, jobs>>

\* line 158
DetermineMissing ==
    /\ parse_pc = "missing"
    /\ result' = [result EXCEPT !.missing_fields = DetermineMissingFields(result)]
    /\ parse_pc' = "classify"
    /\ UNCHANGED <<pin, fs, dxf_path, layer_types>>
    /\ UNCHANGED <<xvars, units, task, jobs>>

\* line 161: _classify_entities
ClassifyEntities ==
    /\ parse_pc = "classify"
    /\ IF pin.fault = "classify"
       THEN /\ Fail("Unexpected error")
            /\ UNCHANGED layer_types
       ELSE /\ layer_types' = BuildLayerTypes(result.layers)
            /\ result' = [result EXCEPT
                 !.entities = ApplyLayerTypes(@, BuildLayerTypes(result.layers))]
            /\ parse_pc' = "finish"
    /\ UNCHANGED <<pin, fs, dxf_path>>
    /\ UNCHANGED <<xvars, units, task, jobs>>

\* lines 163-170: success, then the removal of the intermediate file
ParseFinish ==
    /\ parse_pc = "finish"
    /\ result' = [result EXCEPT !.success = TRUE]
    /\ fs' = IF pin.suffix = "dwg" /\ dxf_path # "input"
             THEN fs \ {dxf_path} ELSE fs
    /\ parse_pc' = "done"
    /\ UNCHANGED <<pin, dxf_path, layer_types>>
    /\ UNCHANGED <<xvars, units, task, jobs>>

ParseNext ==
    \/ ParseStart
    \/ ConvertDwgToDxf
    \/ ReadFile
    \/ ExtractInfo
    \/ DetermineMissing
    \/ ClassifyEntities
    \/ ParseFinish

----------------------------------------------------------------------------
(* process_dwg_upload: parse, preview, result dict                         *)

NewTask == [pc |-> "entry", states |-> <<>>, thumb_success |-> FALSE, ret |-> None]

\* ThumbnailGenerator._calculate_transform up to the None returns: the
\* drawing extent, None without bounds or with an extent of zero
CalculateTransform(r) ==
    IF r.bounds = None
    THEN None
    ELSE LET b == r.bounds[1]
             draw_width == b.max_x - b.min_x
             draw_height == b.max_y - b.min_y
         IN IF draw_width = 0 \/ draw_height = 0
            THEN None
            ELSE Some([min_x |-> b.min_x, min_y |-> b.min_y,
                       draw_width |-> draw_width, draw_height |-> draw_height])

\* generate without the test of the transform
GenerateUnchecked(r, drawn) == drawn

\* ThumbnailGenerator.generate: False without a transform, False when the
\* drawing or the saving raises, True once the image is saved
Generate(r, drawn) ==
    IF CalculateTransform(r) = None THEN FALSE ELSE drawn

\* line 67: the PARSING state
ProcessBegin ==
    /\ task.pc = "entry"
    /\ parse_pc = "start"
    /\ task' = [task EXCEPT !.pc = "parsing", !.states = Append(@, "PARSING")]
    /\ UNCHANGED <<pvars, xvars, units, jobs>>

\* line 71: parser.parse(file_path)
ProcessParse ==
    /\ task.pc = "parsing"
    /\ ParseNext

\* lines 73-81: the failure dict of a failed parse, else the THUMBNAIL state
ProcessParsed ==
    /\ task.pc = "parsing"
    /\ parse_pc = "done"
    /\ IF ~result.success
       THEN task' = [task EXCEPT
                !.pc = "done",
                !.ret = Some([success |-> FALSE, errors |-> result.errors])]
       ELSE task' = [task EXCEPT !.pc = "thumbnail",
                                 !.states = Append(@, "THUMBNAIL")]
    /\ UNCHANGED <<pvars, xvars, units, jobs>>

\* lines 83-90: the preview, then the STORING state
ProcessThumbnail ==
    /\ task.pc = "thumbnail"
    /\ \E drawn \in BOOLEAN :
          /\ task' = [task EXCEPT !.pc = "storing",
                                  !.thumb_success = Generate(result, drawn),
                                  !.states = Append(@, "STORING")]
          /\ fs' = IF Generate(result, drawn) THEN fs \cup {"thumbnail"} ELSE fs
    /\ UNCHANGED <<parse_pc, pin, dxf_path, result, layer_types>>
    /\ UNCHANGED <<xvars, units, jobs>>

\* lines 94-120: the returned dict
ProcessReturn ==
    /\ task.pc = "storing"
    /\ task' = [task EXCEPT
          !.pc = "done",
          !.ret = Some([success |-> TRUE,
                        layer_count |-> Len(result.layers),
                        entity_count |-> Len(result.entities),
                        has_depth |-> result.has_depth,
                        has_rotation |-> result.has_rotation,
                        rotation_degrees |-> result.rotation_degrees,
                        missing_fields |-> result.missing_fields,
                        bounds |-> result.bounds,
                        thumbnail_path |-> IF task.thumb_success
                                           THEN Some("thumbnail") ELSE None,
                        classified_entities |->
                            Cardinality({i \in 1..Len(result.entities) :
                                result.entities[i].suggested_type # None})])]
    /\ UNCHANGED <<pvars, xvars, units, jobs>>

IngestNext ==
    \/ ProcessBegin
    \/ ProcessParse
    \/ ProcessParsed
    \/ ProcessThumbnail
    \/ ProcessReturn


----------------------------------------------------------------------------
(* Export side: assets and options                                          *)

MaxAssets == 2

\* one entry of an asset's coordinate list: a list of 2 or 3 numbers (ok), or
\* an entry that is no list at all, such as null (not ok)
Coord2(x, y) == [ok |-> TRUE, v |-> <<x, y>>]
Coord3(x, y, z) == [ok |-> TRUE, v |-> <<x, y, z>>]
BadEntry == [ok |-> FALSE, v |-> <<>>]

Asset(id, coordinates, points, depth_start, depth_end, diameter) ==
    [id |-> id, coordinates |-> coordinates, points |-> points,
     depth_start |-> depth_start, depth_end |-> depth_end, diameter |-> diameter]

AssetEmpty == Asset("empty", <<>>, None, Some(10000), Some(10000), Some(2000))
AssetPoint == Asset("point", << Coord2(12000, 3400) >>, None, None, None, None)
AssetLine2 == Asset("line2", << Coord2(0, 0), Coord2(10000, 0) >>, None,
                    Some(20000), None, Some(3000))
AssetLine3 == Asset("line3", << Coord3(0, 0, -10000), Coord3(3000, 4000, -10000),
                                Coord3(3000, 4000, -10004) >>, None,
                    None, Some(0), None)
AssetShort == Asset("short", << Coord3(0, 0, 6), Coord3(3, 4, 6) >>, None,
                    None, None, Some(1000))
AssetBad == Asset("bad", << BadEntry, Coord2(10000, 0) >>, None, None, None, None)
AssetProps == Asset("props", <<>>, Some(<< Coord2(0, 0), Coord2(0, 5000) >>),
                    Some(12000), Some(18000), None)

AssetFlat == Asset("flat", << Coord3(0, 0, 0), Coord3(5000, 0, 0) >>, None,
                   Some(12000), Some(18000), Some(0))

AssetEdge == Asset("edge", << Coord3(0, 0, 6), Coord3(6, 8, 6), Coord3(6, 8, 9),
                              Coord3(6, 18, 9) >>, None,
                   Some(10000), Some(20000), None)
AssetSlope == Asset("slope", << Coord2(0, 0), Coord2(5000, 0), Coord2(5000, 5000) >>,
                    None, Some(10000), Some(20000), Some(2000))
AssetAxis == Asset("axis", << Coord3(0, 0, -5000), Coord3(0, 0, -105000) >>, None,
                   None, None, Some(3000))

AssetPool ==
    {AssetEmpty, AssetPoint, AssetLine2, AssetLine3, AssetShort, AssetBad, AssetProps,
     AssetFlat}

AssetSteep == Asset("steep", << Coord3(0, 0, -1000), Coord3(1, 0, -6000),
                                Coord3(5001, 0, -6000) >>, None, None, None, None)

AssetBend == Asset("bend", << Coord3(0, 0, -10000), Coord3(5000, 0, -10000),
                              Coord3(5000, 5000, -12000) >>, None,
                   Some(10000), Some(20000), None)
AssetLevel == Asset("level", << Coord2(0, 0), Coord2(5000, 0), Coord2(5000, 5000) >>,
                    None, None, Some(15000), None)

\* pipes that exercise the solid generator: a segment of exactly 0.001 and a
\* shorter one, a 2-D polyline with differing depths, a 10-unit vertical pipe,
\* a nearly vertical segment, a 3-D polyline with differing depths, a 2-D
\* polyline whose end depth is the default depth
SolidAssets == {AssetEdge, AssetSlope, AssetAxis, AssetSteep, AssetBend, AssetLevel}

AssetLists ==
    SeqsUpTo(AssetPool, MaxAssets)
    \cup {<<a>> : a \in SolidAssets}
    \cup {<<AssetShort, a>> : a \in SolidAssets}

DEFAULT_DEPTH == 15000      \* 1.5
DEFAULT_DIAMETER == 1500    \* 0.15

\* ExportOptions; kwargs_ok is FALSE when the keyword arguments name no field
\* of the dataclass, crs_ok is FALSE when a CRS identifier is unusable
Options(kwargs_ok, source_crs, target_crs, crs_ok, precision) ==
    [kwargs_ok |-> kwargs_ok, source_crs |-> source_crs, target_crs |-> target_crs,
     crs_ok |-> crs_ok, precision |-> precision,
     default_depth |-> DEFAULT_DEPTH, default_diameter |-> DEFAULT_DIAMETER]

OptDefault == Options(TRUE, "EPSG:4326", "EPSG:4326", TRUE, 8)
OptReproject == Options(TRUE, "EPSG:2263", "EPSG:4326", TRUE, 3)
OptCoarse == Options(TRUE, "EPSG:4326", "EPSG:4326", TRUE, 3)
OptBadCrs == Options(TRUE, "EPSG:4326", "bogus", FALSE, 8)
OptBadKwargs == Options(FALSE, "EPSG:4326", "EPSG:4326", TRUE, 8)

\* Python's  value or default  on an optional number
OrDefault(opt, default) ==
    IF opt = None \/ opt = Some(0) THEN default ELSE opt[1]

\* _extract_coordinates (the same in all four adapters)
ExtractCoordinates(asset) ==
    IF asset.coordinates # <<>> THEN asset.coordinates
    ELSE IF asset.points # None THEN asset.points[1]
    ELSE <<>>

----------------------------------------------------------------------------
(* GeoJSONExporter *)

\* Transformer.transform for the CRS pair of OptReproject
Reproject(x, y) == <<x + 3, y + 3>>

\* 10^n
RECURSIVE Pow10(_)
Pow10(n) == IF n = 0 THEN 1 ELSE 10 * Pow10(n - 1)

\* round(v, precision) on values held in units of 0.0001
RoundTo(v, precision) ==
    IF precision >= 4 THEN v
    ELSE LET m == Pow10(4 - precision)
             r == v % m
         IN IF 2 * r < m THEN v - r ELSE v - r + m

\* _transform_coord
TransformCoord(c) ==
    LET xy == Reproject(c[1], c[2])
    IN <<xy[1], xy[2], IF Len(c) > 2 THEN c[3] ELSE 0>>

\* _transform_coord with a transformer built whatever the CRS pair
TransformAlways(opts, c) == TransformCoord(c)

\* _transform_coord on the exporter's transformer, which exists only for
\* differing CRS identifiers (_init_transformer)
TransformWith(opts, c) ==
    IF opts.source_crs # opts.target_crs /\ Len(c) >= 2 THEN TransformCoord(c) ELSE c

\* _asset_to_feature without the test for an empty coordinate list
AssetToFeatureNoSkip(asset, opts) ==
    LET coords == ExtractCoordinates(asset)
    IN IF \E i \in 1..Len(coords) : ~coords[i].ok THEN None
       ELSE Some([id |-> asset.id,
                  type |-> IF Len(coords) = 1 THEN "Point" ELSE "LineString",
                  coordinates |-> [i \in 1..Len(coords) |-> coords[i].v]])

\* _asset_to_feature: None for no coordinates and for any fault raised while
\* the asset is converted (the except clause)
AssetToFeature(asset, opts) ==
    LET coords == ExtractCoordinates(asset)
        moved == [i \in 1..Len(coords) |-> TransformWith(opts, coords[i].v)]
        rounded == [i \in 1..Len(coords) |->
                      <<RoundTo(moved[i][1], opts.precision),
                        RoundTo(moved[i][2], opts.precision),
                        IF Len(moved[i]) > 2 THEN RoundTo(moved[i][3], opts.precision)
                        ELSE 0>>]
    IN IF coords = <<>> THEN None
       ELSE IF \E i \in 1..Len(coords) : ~coords[i].ok THEN None
       ELSE Some([id |-> asset.id,
                  type |-> IF Len(coords) = 1 THEN "Point" ELSE "LineString",
                  coordinates |-> rounded])

\* the feature loop of GeoJSONExporter.export
RECURSIVE Features(_, _)
Features(assets, opts) ==
    IF assets = <<>> THEN <<>>
    ELSE AssetToFeature(Head(assets), opts) \o Features(Tail(assets), opts)

----------------------------------------------------------------------------
(* CSVExporter *)

\* whether writing the asset's row raises (a first or last entry that is no list)
RowFaults(asset) ==
    LET coords == ExtractCoordinates(asset)
    IN coords # <<>> /\ (~coords[1].ok \/ ~coords[Len(coords)].ok)

\* the row with the stored depth taken before the coordinate's own z
RowStoredDepthFirst(asset) ==
    LET coords == ExtractCoordinates(asset)
        start == coords[1].v
        end == IF Len(coords) > 1 THEN coords[Len(coords)].v ELSE start
    IN [id |-> asset.id,
        start_lat |-> IF Len(start) > 1 THEN start[2] ELSE 0,
        start_lon |-> IF Len(start) > 0 THEN start[1] ELSE 0,
        start_depth |-> IF asset.depth_start # None THEN asset.depth_start[1]
                        ELSE IF Len(start) > 2 THEN start[3] ELSE 0,
        end_lat |-> IF Len(end) > 1 THEN end[2] ELSE 0,
        end_lon |-> IF Len(end) > 0 THEN end[1] ELSE 0,
        end_depth |-> IF asset.depth_end # None THEN asset.depth_end[1]
                      ELSE IF Len(end) > 2 THEN end[3] ELSE 0,
        diameter |-> IF asset.diameter = Some(0) THEN None ELSE asset.diameter]

\* the row written for an asset with coordinates
Row(asset) ==
    LET coords == ExtractCoordinates(asset)
        start == coords[1].v
        end == IF Len(coords) > 1 THEN coords[Len(coords)].v ELSE start
    IN [id |-> asset.id,
        start_lat |-> IF Len(start) > 1 THEN start[2] ELSE 0,
        start_lon |-> IF Len(start) > 0 THEN start[1] ELSE 0,
        start_depth |-> IF Len(start) > 2 THEN start[3]
                        ELSE OrDefault(asset.depth_start, 0),
        end_lat |-> IF Len(end) > 1 THEN end[2] ELSE 0,
        end_lon |-> IF Len(end) > 0 THEN end[1] ELSE 0,
        end_depth |-> IF Len(end) > 2 THEN end[3] ELSE OrDefault(asset.depth_end, 0),
        diameter |-> IF asset.diameter = Some(0) THEN None ELSE asset.diameter]

\* the data-row loop: the rows written, and whether the loop raised
RECURSIVE Rows(_)
Rows(assets) ==
    IF assets = <<>> THEN [rows |-> <<>>, raised |-> FALSE]
    ELSE IF ExtractCoordinates(Head(assets)) = <<>> THEN Rows(Tail(assets))
    ELSE IF RowFaults(Head(assets)) THEN [rows |-> <<>>, raised |-> TRUE]
    ELSE LET rest == Rows(Tail(assets))
         IN [rows |-> <<Row(Head(assets))>> \o rest.rows, raised |-> rest.raised]


----------------------------------------------------------------------------
(* Solid generation: GLTFExporter *)

SEGMENT_EPS == 10     \* 0.001

Sq(n) == n * n

\* the squared length of end - start
Len2(start, end) ==
    Sq(end[1] - start[1]) + Sq(end[2] - start[2]) + Sq(end[3] - start[3])

\* whether end - start runs along one coordinate axis
Axial(start, end) ==
    \E k \in 1..3 : \A j \in (1..3) \ {k} : end[j] = start[j]

\* np.linalg.norm(end - start): the length itself for a segment along an
\* axis (exact), else its square
Length(start, end) ==
    IF Axial(start, end)
    THEN [exact |-> TRUE,
          v |-> Abs(end[1] - start[1]) + Abs(end[2] - start[2]) + Abs(end[3] - start[3])]
    ELSE [exact |-> FALSE, v |-> Len2(start, end)]

\* length < 0.001
Short(start, end) ==
    IF Length(start, end).exact THEN Length(start, end).v < SEGMENT_EPS
    ELSE Length(start, end).v < Sq(SEGMENT_EPS)

\* whether the norm of cross(z_axis, direction / length) exceeds 0.001, that is
\* (dx^2 + dy^2) * 10^6 > length^2, written without the large product; along
\* an axis the norm is 0 (z) or 1 (x, y)
NeedsRotation(start, end) ==
    IF Axial(start, end) THEN end[1] # start[1] \/ end[2] # start[2]
    ELSE Sq(end[1] - start[1]) + Sq(end[2] - start[2]) > Len2(start, end) \div 1000000

\* a cylinder that is rotated whatever its direction
CylinderRotated(start, end, radius) ==
    [radius |-> radius, height |-> Length(start, end),
     rotated |-> TRUE,
     mid2 |-> <<start[1] + end[1], start[2] + end[2], start[3] + end[3]>>,
     start |-> start, end |-> end]

\* a cylinder: radius, height, whether it was rotated, twice the midpoint it
\* was translated to, and the two points it was built between
Cylinder(start, end, radius) ==
    [radius |-> radius, height |-> Length(start, end),
     rotated |-> NeedsRotation(start, end),
     mid2 |-> <<start[1] + end[1], start[2] + end[2], start[3] + end[3]>>,
     start |-> start, end |-> end]

\* _create_cylinder skipping a segment of exactly 0.001 as well
CreateCylinderStrict(start, end, radius) ==
    IF Short(start, end) \/ Length(start, end) = [exact |-> FALSE, v |-> Sq(SEGMENT_EPS)]
       \/ Length(start, end) = [exact |-> TRUE, v |-> SEGMENT_EPS]
    THEN None
    ELSE Some(Cylinder(start, end, radius))

\* _create_cylinder without the degenerate-segment test
CreateCylinderAlways(start, end, radius) == Some(Cylinder(start, end, radius))

\* GLTFExporter._create_cylinder: None for a segment shorter than 0.001
CreateCylinder(start, end, radius) ==
    IF Short(start, end) THEN None
    ELSE Some(Cylinder(start, end, radius))

\* a point of a segment with the depth as z whatever the entry holds
WithDepthAlways(c, depth) == <<c[1], c[2], -depth>>

\* a point of a segment, with the depth as z when the entry is 2-D
WithDepth(c, depth) == IF Len(c) = 2 THEN <<c[1], c[2], -depth>> ELSE c

\* the two points of segment i with the start depth used for both
SegmentEndsStartDepth(asset, coords, opts, i) ==
    << WithDepth(coords[i].v, OrDefault(asset.depth_start, opts.default_depth)),
       WithDepth(coords[i + 1].v, OrDefault(asset.depth_start, opts.default_depth)) >>

\* the start and end point of segment i as _asset_to_mesh hands them to
\* _create_cylinder (the same lines in GLTFExporter and FBXExporter)
SegmentEnds(asset, coords, opts, i) ==
    << WithDepth(coords[i].v, OrDefault(asset.depth_start, opts.default_depth)),
       WithDepth(coords[i + 1].v, OrDefault(asset.depth_end, opts.default_depth)) >>

\* the segment loop of GLTFExporter._asset_to_mesh, from segment i on
RECURSIVE Segments(_, _, _, _)
Segments(asset, coords, opts, i) ==
    IF i > Len(coords) - 1 THEN <<>>
    ELSE CreateCylinder(
             SegmentEnds(asset, coords, opts, i)[1],
             SegmentEnds(asset, coords, opts, i)[2],
             OrDefault(asset.diameter, opts.default_diameter) \div 2)
         \o Segments(asset, coords, opts, i + 1)

\* GLTFExporter._asset_to_mesh: the asset's cylinders, or None (fewer than two
\* coordinates, no cylinder, or a fault caught by the except clause)
AssetToMesh(asset, opts, trimesh) ==
    LET coords == ExtractCoordinates(asset)
    IN IF ~trimesh THEN None
       ELSE IF Len(coords) < 2 THEN None
       ELSE IF \E i \in 1..Len(coords) : ~coords[i].ok THEN None
       ELSE IF Segments(asset, coords, opts, 1) = <<>> THEN None
       ELSE Some(Segments(asset, coords, opts, 1))

\* the mesh loop of GLTFExporter.export
RECURSIVE Meshes(_, _, _)
Meshes(assets, opts, trimesh) ==
    IF assets = <<>> THEN <<>>
    ELSE AssetToMesh(Head(assets), opts, trimesh) \o Meshes(Tail(assets), opts, trimesh)

----------------------------------------------------------------------------
(* Solid generation: FBXExporter, direct (trimesh) path *)

\* FBXExporter._create_cylinder
FbxCreateCylinder(start, end, radius) ==
    IF Short(start, end) THEN None
    ELSE Some(Cylinder(start, end, radius))

\* the segment loop of FBXExporter._asset_to_mesh, from segment i on
RECURSIVE FbxSegments(_, _, _, _)
FbxSegments(asset, coords, opts, i) ==
    IF i > Len(coords) - 1 THEN <<>>
    ELSE FbxCreateCylinder(
             SegmentEnds(asset, coords, opts, i)[1],
             SegmentEnds(asset, coords, opts, i)[2],
             OrDefault(asset.diameter, opts.default_diameter) \div 2)
         \o FbxSegments(asset, coords, opts, i + 1)

\* FBXExporter._asset_to_mesh
FbxAssetToMesh(asset, opts, trimesh) ==
    LET coords == ExtractCoordinates(asset)
    IN IF ~trimesh THEN None
       ELSE IF Len(coords) < 2 THEN None
       ELSE IF \E i \in 1..Len(coords) : ~coords[i].ok THEN None
       ELSE IF FbxSegments(asset, coords, opts, 1) = <<>> THEN None
       ELSE Some(FbxSegments(asset, coords, opts, 1))

\* the mesh loop of FBXExporter._export_fallback
RECURSIVE FbxMeshes(_, _, _)
FbxMeshes(assets, opts, trimesh) ==
    IF assets = <<>> THEN <<>>
    ELSE FbxAssetToMesh(Head(assets), opts, trimesh)
         \o FbxMeshes(Tail(assets), opts, trimesh)

----------------------------------------------------------------------------
(* FBXExporter, external-tool path: the data handed to the tool and the     *)
(* generation script BLENDER_FBX_SCRIPT                                     *)

\* the asset_data loop of _export_with_blender
RECURSIVE AssetData(_, _)
AssetData(assets, opts) ==
    IF assets = <<>> THEN <<>>
    ELSE IF ExtractCoordinates(Head(assets)) = <<>> THEN AssetData(Tail(assets), opts)
    ELSE << [coordinates |-> ExtractCoordinates(Head(assets)),
             diameter |-> OrDefault(Head(assets).diameter, opts.default_diameter),
             depth_start |-> OrDefault(Head(assets).depth_start, opts.default_depth),
             depth_end |-> OrDefault(Head(assets).depth_end, opts.default_depth),
             label |-> Head(assets).id] >>
         \o AssetData(Tail(assets), opts)

\* the z the script gives a point
ScriptPoint(c, depth) ==
    IF Len(c) = 2 THEN <<c[1], c[2], -depth>>
    ELSE <<c[1], c[2], IF c[3] # 0 THEN -Abs(c[3]) ELSE -depth>>

\* create_pipe_segment: None for a segment shorter than 0.001
CreatePipeSegment(start, end, radius) ==
    IF Short(start, end) THEN None
    ELSE Some([radius |-> radius, height |-> Length(start, end),
               start |-> start, end |-> end,
               mid2 |-> <<start[1] + end[1], start[2] + end[2], start[3] + end[3]>>])

\* the segment loop of create_pipe_from_asset, from segment i on
RECURSIVE PipeSegments(_, _)
PipeSegments(d, i) ==
    IF i > Len(d.coordinates) - 1 THEN <<>>
    ELSE CreatePipeSegment(ScriptPoint(d.coordinates[i].v, d.depth_start),
                           ScriptPoint(d.coordinates[i + 1].v, d.depth_end),
                           d.diameter \div 2)
         \o PipeSegments(d, i + 1)

\* create_pipe_from_asset
CreatePipeFromAsset(d) ==
    IF Len(d.coordinates) < 2 THEN <<>> ELSE PipeSegments(d, 1)

\* whether the script raises on this data (an entry that is no list)
ScriptRaises(data) ==
    \E a \in 1..Len(data) :
        /\ Len(data[a].coordinates) >= 2
        /\ \E i \in 1..Len(data[a].coordinates) : ~data[a].coordinates[i].ok

\* the objects of the scene the script exports, asset by asset
RECURSIVE Scene(_)
Scene(data) ==
    IF data = <<>> THEN <<>>
    ELSE CreatePipeFromAsset(Head(data)) \o Scene(Tail(data))


----------------------------------------------------------------------------
(* One export call, entered through generate_export ("task") or through a   *)
(* convenience function export_geojson / export_csv / export_gltf /         *)
(* export_fbx ("func")                                                      *)

ExportInput(entry, format, assets, opts, blender, fbx_native, trimesh, fsfault, stale) ==
    [entry |-> entry, format |-> format, assets |-> assets, opts |-> opts,
     blender |-> blender, fbx_native |-> fbx_native, trimesh |-> trimesh,
     fsfault |-> fsfault, stale |-> stale]

\* what varies per format: options, the external tool (absent, or how its run
\* ends), whether the mesh library is installed and can write FBX, a fault of
\* the filesystem (none, on open, while writing), a file left by an earlier run
FormatCases ==
    { <<"geojson", o, "absent", FALSE, TRUE, "none", FALSE>> :
        o \in {OptDefault, OptReproject, OptCoarse, OptBadCrs, OptBadKwargs} }
    \cup { <<f, OptDefault, "absent", FALSE, TRUE, ff, FALSE>> :
             f \in {"geojson", "csv", "gltf"}, ff \in {"open", "write"} }
    \cup { <<"csv", o, "absent", FALSE, TRUE, "none", FALSE>> :
             o \in {OptDefault, OptReproject, OptBadKwargs} }
    \cup { <<f, OptDefault, "absent", FALSE, TRUE, "none", TRUE>> :
             f \in {"geojson", "csv", "gltf"} }
    \cup { <<"gltf", OptDefault, "absent", FALSE, t, "none", FALSE>> : t \in BOOLEAN }
    \cup { <<"fbx", OptDefault, "absent", n, TRUE, "none", st>> :
             n \in BOOLEAN, st \in BOOLEAN }
    \cup { <<"fbx", OptDefault, "absent", TRUE, FALSE, "none", FALSE>>,
           <<"fbx", OptDefault, "absent", TRUE, TRUE, "write", FALSE>> }
    \cup { <<"fbx", OptDefault, b, FALSE, TRUE, "none", st>> :
             b \in {"exit0", "nonzero", "timeout"}, st \in BOOLEAN }

ExportInputs ==
    { ExportInput(e, c[1], a, c[2], c[3], c[4], c[5], c[6], c[7]) :
        e \in {"task", "func"}, a \in AssetLists, c \in FormatCases }
    \cup { ExportInput("task", "kml", a, OptDefault, "absent", FALSE, TRUE, "none", FALSE) :
             a \in AssetLists }

\* one output path for the project, whatever the format
OutputPathShared(format) == "exports/p.out"

\* os.path.join(export_dir, f"{project_id}.<ext>")
OutputPath(format) ==
    IF format = "geojson" THEN "exports/p.geojson"
    ELSE IF format = "csv" THEN "exports/p.csv"
    ELSE IF format = "gltf" THEN "exports/p.glb"
    ELSE "exports/p.fbx"

\* output_path.replace('.fbx', '.obj')
ObjPath == "exports/p.obj"

DataPath == "tmp/data.json"
ScriptPath == "tmp/script.py"

\* file contents: what an earlier run left, and what this run writes
Stale == [by |-> "earlier", complete |-> TRUE, data |-> <<>>]
StalePartial == [by |-> "earlier", complete |-> FALSE, data |-> <<>>]
Written(data) == [by |-> "this", complete |-> TRUE, data |-> data]
Partial(data) == [by |-> "this", complete |-> FALSE, data |-> data]

\* files with path p holding content c
Put(p, c) == [q \in DOMAIN files \cup {p} |-> IF q = p THEN c ELSE files[q]]

\* files without the paths of ps
Remove(ps) == [q \in DOMAIN files \ ps |-> files[q]]

ExportInit ==
    /\ export_pc = "start"
    /\ xin \in ExportInputs
    /\ files \in IF xin.stale
                 THEN {[q \in {OutputPath(xin.format)} |-> c] : c \in {Stale, StalePartial}}
                 ELSE {[q \in {} |-> Stale]}
    /\ ret = None
    /\ task_result = None
    /\ calls = {}

Failure(error) == Some([success |-> FALSE, error |-> error, file_path |-> "none"])

\* whether building the exporter raises: only GeoJSONExporter.__init__ builds
\* a transformer, and only for differing CRS identifiers
ConstructorRaises ==
    /\ xin.format = "geojson"
    /\ xin.opts.source_crs # xin.opts.target_crs
    /\ ~xin.opts.crs_ok

\* generate_export up to the adapter call: lines 151-197, with the except
\* clause of lines 214-219
GenerateExportBegin ==
    /\ export_pc = "start"
    /\ xin.entry = "task"
    /\ IF xin.assets = <<>>
       THEN /\ task_result' = Failure("No assets found for project")
            /\ export_pc' = "done"
       ELSE IF ~xin.opts.kwargs_ok
       THEN /\ task_result' = Failure("exception")
            /\ export_pc' = "done"
       ELSE IF xin.format \notin {"geojson", "csv", "gltf", "fbx"}
       THEN /\ task_result' = Failure("Unsupported export format")
            /\ export_pc' = "done"
       ELSE IF ConstructorRaises
       THEN /\ task_result' = Failure("exception")
            /\ export_pc' = "done"
       ELSE /\ export_pc' = xin.format
            /\ UNCHANGED task_result
    /\ UNCHANGED <<xin, files, ret, calls>>
    /\ UNCHANGED <<pvars, units, task, jobs>>

\* export_geojson / export_csv / export_gltf / export_fbx up to the adapter
\* call: the options and the exporter are built outside any try
ExportFuncBegin ==
    /\ export_pc = "start"
    /\ xin.entry = "func"
    /\ export_pc' = IF ~xin.opts.kwargs_ok \/ ConstructorRaises
                    THEN "raised" ELSE xin.format
    /\ UNCHANGED <<xin, files, ret, task_result, calls>>
    /\ UNCHANGED <<pvars, units, task, jobs>>

\* GeoJSONExporter.export
GeoJSONExport ==
    /\ export_pc = "geojson"
    /\ LET features == Features(xin.assets, xin.opts)
           path == OutputPath("geojson")
       IN IF xin.fsfault = "open"
          THEN /\ ret' = Some(FALSE)
               /\ UNCHANGED files
          ELSE IF xin.fsfault = "write"
          THEN /\ ret' = Some(FALSE)
               /\ files' = Put(path, Partial(<<>>))
          ELSE /\ ret' = Some(TRUE)
               /\ files' = Put(path, Written(features))
    /\ export_pc' = "returned"
    /\ UNCHANGED <<xin, task_result, calls>>
    /\ UNCHANGED <<pvars, units, task, jobs>>

\* CSVExporter.export
CSVExport ==
    /\ export_pc = "csv"
    /\ LET written == Rows(xin.assets)
           path == OutputPath("csv")
       IN IF xin.fsfault = "open"
          THEN /\ ret' = Some(FALSE)
               /\ UNCHANGED files
          ELSE IF xin.fsfault = "write"
          THEN /\ ret' = Some(FALSE)
               /\ files' = Put(path, Partial(<<>>))
          ELSE IF written.raised
          THEN /\ ret' = Some(FALSE)
               /\ files' = Put(path, Partial(written.rows))
          ELSE /\ ret' = Some(TRUE)
               /\ files' = Put(path, Written(written.rows))
    /\ export_pc' = "returned"
    /\ UNCHANGED <<xin, task_result, calls>>
    /\ UNCHANGED <<pvars, units, task, jobs>>

\* GLTFExporter.export
GLTFExport ==
    /\ export_pc = "gltf"
    /\ LET meshes == Meshes(xin.assets, xin.opts, xin.trimesh)
           path == OutputPath("gltf")
       IN IF ~xin.trimesh
          THEN /\ ret' = Some(FALSE)
               /\ UNCHANGED files
          ELSE IF meshes = <<>>
          THEN /\ ret' = Some(FALSE)
               /\ UNCHANGED files
          ELSE IF xin.fsfault = "open"
          THEN /\ ret' = Some(FALSE)
               /\ UNCHANGED files
          ELSE IF xin.fsfault = "write"
          THEN /\ ret' = Some(FALSE)
               /\ files' = Put(path, Partial(<<>>))
          ELSE /\ ret' = Some(TRUE)
               /\ files' = Put(path, Written(meshes))
    /\ export_pc' = "returned"
    /\ UNCHANGED <<xin, task_result, calls>>
    /\ UNCHANGED <<pvars, units, task, jobs>>


\* FBXExporter.export: the tool path when __init__ found the tool, else the
\* direct path
FBXExport ==
    /\ export_pc = "fbx"
    /\ export_pc' = IF xin.blender # "absent" THEN "blender" ELSE "fallback"
    /\ UNCHANGED <<xin, files, ret, task_result, calls>>
    /\ UNCHANGED <<pvars, units, task, jobs>>

\* _export_with_blender up to the tool run: lines 250-287
ExportWithBlender ==
    /\ export_pc = "blender"
    /\ calls' = calls \cup {"_export_with_blender"}
    /\ IF AssetData(xin.assets, xin.opts) = <<>>
       THEN /\ ret' = Some(FALSE)
            /\ export_pc' = "returned"
            /\ UNCHANGED files
       ELSE /\ files' = [q \in DOMAIN files \cup {DataPath, ScriptPath} |->
                           IF q = DataPath
                           THEN Written(AssetData(xin.assets, xin.opts))
                           ELSE IF q = ScriptPath THEN Written(<<>>)
                           ELSE files[q]]
            /\ export_pc' = "blender_run"
            /\ UNCHANGED ret
    /\ UNCHANGED <<xin, task_result>>
    /\ UNCHANGED <<pvars, units, task, jobs>>

\* the tool run and what follows it: lines 289-317.  The tool writes the
\* target file when its script runs through and it exits with 0; a timeout
\* leaves the except clause to return False
BlenderRun ==
    /\ export_pc = "blender_run"
    /\ LET data == files[DataPath].data
           path == OutputPath("fbx")
       IN IF xin.blender = "timeout"
          THEN /\ ret' = Some(FALSE)
               /\ UNCHANGED files
          ELSE IF xin.blender = "nonzero"
          THEN /\ ret' = Some(FALSE)
               /\ files' = Remove({DataPath, ScriptPath})
          ELSE /\ ret' = Some(TRUE)
               /\ files' = IF ScriptRaises(data)
                           THEN Remove({DataPath, ScriptPath})
                           ELSE [q \in (DOMAIN files \ {DataPath, ScriptPath}) \cup {path} |->
                                   IF q = path THEN Written(Scene(data)) ELSE files[q]]
    /\ export_pc' = "returned"
    /\ UNCHANGED <<xin, task_result, calls>>
    /\ UNCHANGED <<pvars, units, task, jobs>>

\* _export_fallback: the direct mesh path, with the OBJ file as last resort
ExportFallback ==
    /\ export_pc = "fallback"
    /\ calls' = calls \cup {"_export_fallback"}
    /\ LET meshes == FbxMeshes(xin.assets, xin.opts, xin.trimesh)
           path == OutputPath("fbx")
       IN IF ~xin.trimesh
          THEN /\ ret' = Some(FALSE)
               /\ UNCHANGED files
          ELSE IF meshes = <<>>
          THEN /\ ret' = Some(FALSE)
               /\ UNCHANGED files
          ELSE IF xin.fsfault = "open"
          THEN /\ ret' = Some(FALSE)
               /\ UNCHANGED files
          ELSE IF xin.fbx_native /\ xin.fsfault = "none"
          THEN /\ ret' = Some(TRUE)
               /\ files' = Put(path, Written(meshes))
          ELSE IF xin.fsfault = "write"
          THEN /\ ret' = Some(FALSE)
               /\ files' = Put(path, Partial(<<>>))
          ELSE /\ ret' = Some(TRUE)
               /\ files' = Put(ObjPath, Written(meshes))
    /\ export_pc' = "returned"
    /\ UNCHANGED <<xin, task_result>>
    /\ UNCHANGED <<pvars, units, task, jobs>>

\* generate_export after the adapter call: lines 199-219
GenerateExportReport ==
    /\ export_pc = "returned"
    /\ xin.entry = "task"
    /\ task_result' =
         IF ret = Some(TRUE)
         THEN IF OutputPath(xin.format) \in DOMAIN files
              THEN Some([success |-> TRUE, error |-> "none",
                         file_path |-> OutputPath(xin.format)])
              ELSE Failure("exception")
         ELSE Failure("Export generation failed")
    /\ export_pc' = "done"
    /\ UNCHANGED <<xin, files, ret, calls>>
    /\ UNCHANGED <<pvars, units, task, jobs>>

ExportNext ==
    \/ GenerateExportBegin
    \/ ExportFuncBegin
    \/ GeoJSONExport
    \/ CSVExport
    \/ GLTFExport
    \/ FBXExport
    \/ ExportWithBlender
    \/ BlenderRun
    \/ ExportFallback
    \/ GenerateExportReport

----------------------------------------------------------------------------
(* Several generate_export calls for the same project, one per format, on   *)
(* separate workers.  They share nothing but the filesystem; every file     *)
(* operation of a call is one step.  The collaborators do not fail here     *)
(* except for the external tool.                                            *)

Formats == {"geojson", "csv", "gltf", "fbx"}

ConcAssetPool == {AssetEmpty, AssetLine2, AssetBad}

PutOp(path, content) == [op |-> "put", path |-> path, content |-> content]
DelOp(path) == [op |-> "del", path |-> path, content |-> Stale]

\* open(path, "w") followed by the write of the whole content
OpenAndWrite(path, content) == << PutOp(path, Partial(<<>>)), PutOp(path, content) >>

\* the file operations of the adapter for a format, in program order, and the
\* value its export() returns
FileOps(format) ==
    LET a == xin.assets
        o == xin.opts
        rows == Rows(a)
        meshes == Meshes(a, o, TRUE)
        fbx_meshes == FbxMeshes(a, o, TRUE)
        data == AssetData(a, o)
        temps == << PutOp(DataPath, Written(data)), PutOp(ScriptPath, Written(<<>>)) >>
        unlink == << DelOp(DataPath), DelOp(ScriptPath) >>
    IN IF format = "geojson"
       THEN [ops |-> OpenAndWrite(OutputPath("geojson"), Written(Features(a, o))),
             ret |-> TRUE]
       ELSE IF format = "csv"
       THEN [ops |-> OpenAndWrite(OutputPath("csv"),
                                  IF rows.raised THEN Partial(rows.rows)
                                  ELSE Written(rows.rows)),
             ret |-> ~rows.raised]
       ELSE IF format = "gltf"
       THEN IF meshes = <<>> THEN [ops |-> <<>>, ret |-> FALSE]
            ELSE [ops |-> OpenAndWrite(OutputPath("gltf"), Written(meshes)),
                  ret |-> TRUE]
       ELSE IF xin.blender = "absent"
       THEN IF fbx_meshes = <<>> THEN [ops |-> <<>>, ret |-> FALSE]
            ELSE IF xin.fbx_native
            THEN [ops |-> OpenAndWrite(OutputPath("fbx"), Written(fbx_meshes)),
                  ret |-> TRUE]
            ELSE [ops |-> OpenAndWrite(ObjPath, Written(fbx_meshes)), ret |-> TRUE]
       ELSE IF data = <<>> THEN [ops |-> <<>>, ret |-> FALSE]
       ELSE IF xin.blender = "timeout" THEN [ops |-> temps, ret |-> FALSE]
       ELSE IF xin.blender = "nonzero" THEN [ops |-> temps \o unlink, ret |-> FALSE]
       ELSE IF ScriptRaises(data) THEN [ops |-> temps \o unlink, ret |-> TRUE]
       ELSE [ops |-> temps \o << PutOp(OutputPath("fbx"), Written(Scene(data))) >>
                        \o unlink,
             ret |-> TRUE]

\* the filesystem f after the file operation op of the call for format u
ApplyOp(f, op, u) ==
    IF op.op = "put"
    THEN [q \in DOMAIN f \cup {op.path} |->
            IF q = op.path THEN [op.content EXCEPT !.by = u] ELSE f[q]]
    ELSE [q \in DOMAIN f \ {op.path} |-> f[q]]

\* the dict generate_export returns after the adapter returned r, on the
\* filesystem f: os.path.getsize(output_path) raises when the file is missing
Report(u, r, f) ==
    IF r
    THEN IF OutputPath(u) \in DOMAIN f
         THEN Some([success |-> TRUE, error |-> "none", file_path |-> OutputPath(u)])
         ELSE Failure("exception")
    ELSE Failure("Export generation failed")

NewUnit ==
    [pc |-> "start", ops |-> <<>>, ret |-> None, result |-> None, touched |-> {}]

ConcInit ==
    /\ units = [u \in Formats |-> NewUnit]
    /\ xin \in { ExportInput("task", "all", a, OptDefault, b, n, TRUE, "none", FALSE) :
                   a \in SeqsUpTo(ConcAssetPool, MaxAssets),
                   b \in {"absent", "exit0", "nonzero", "timeout"},
                   n \in BOOLEAN }
    /\ files = [q \in {} |-> Stale]
    /\ export_pc = "idle"
    /\ ret = None
    /\ task_result = None
    /\ calls = {}

\* generate_export up to the adapter's first file operation
UnitBegin(u) ==
    /\ units[u].pc = "start"
    /\ units' = [units EXCEPT ![u] =
                   IF xin.assets = <<>>
                   THEN [@ EXCEPT !.pc = "done",
                                  !.result = Failure("No assets found for project")]
                   ELSE [@ EXCEPT !.pc = "export", !.ops = FileOps(u).ops]]
    /\ UNCHANGED <<xin, files, export_pc, ret, task_result, calls>>
    /\ UNCHANGED <<pvars, task, jobs>>

\* the next file operation of the adapter
UnitFileOp(u) ==
    /\ units[u].pc = "export"
    /\ units[u].ops # <<>>
    /\ files' = ApplyOp(files, Head(units[u].ops), u)
    /\ units' = [units EXCEPT ![u].ops = Tail(@),
                              ![u].touched = @ \cup {Head(units[u].ops).path}]
    /\ UNCHANGED <<xin, export_pc, ret, task_result, calls>>
    /\ UNCHANGED <<pvars, task, jobs>>

\* the adapter's export() returns
UnitReturn(u) ==
    /\ units[u].pc = "export"
    /\ units[u].ops = <<>>
    /\ units' = [units EXCEPT ![u].pc = "returned", ![u].ret = Some(FileOps(u).ret)]
    /\ UNCHANGED <<xin, files, export_pc, ret, task_result, calls>>
    /\ UNCHANGED <<pvars, task, jobs>>

\* generate_export after the adapter call
UnitReport(u) ==
    /\ units[u].pc = "returned"
    /\ units' = [units EXCEPT ![u].pc = "done",
                              ![u].result = Report(u, units[u].ret[1], files)]
    /\ UNCHANGED <<xin, files, export_pc, ret, task_result, calls>>
    /\ UNCHANGED <<pvars, task, jobs>>

ConcNext ==
    \/ \E u \in Formats : UnitBegin(u)
    \/ \E u \in Formats : UnitFileOp(u)
    \/ \E u \in Formats : UnitReturn(u)
    \/ \E u \in Formats : UnitReport(u)

----------------------------------------------------------------------------
(* Concurrent ingestion: process_dwg_upload queued by the upload and again  *)
(* by retry_processing for the same uploaded .dwg file.  The calls share    *)
(* the upload, its sibling .dxf and the path pv_<stem>.dxf in the temp      *)
(* directory; each has its own converter run.                               *)

MaxJobs == 2

JobIds == 1..MaxJobs

\* the drawings of the shared upload
JobDocs == {d \in Docs : d.header.insunits = 6 /\ Len(d.entities) <= 1}

JobReadCases ==
    { [read |-> "ok", fault |-> f, doc |-> d] :
        f \in {"none", "extract", "classify"}, d \in JobDocs }
    \cup { [read |-> "dxf_error", fault |-> "none", doc |-> EmptyDoc] }

\* the shared upload: with the converter installed, or without it and with a
\* sibling .dxf
JobInputs ==
    { ParseInput("dwg", TRUE, TRUE, sib, "output", rc) :
        sib \in BOOLEAN, rc \in JobReadCases }
    \cup { ParseInput("dwg", TRUE, FALSE, TRUE, "none", rc) : rc \in JobReadCases }

NewJob(conv) ==
    [pc |-> "start", conv |-> conv, dxf_path |-> "none", result |-> NewParseResult]

\* the ParseResult of lines 136-163 for a drawing read without a fault
ParsedResult(doc) ==
    LET entities == ExtractEntities(doc)
        crs == DetectCrs(doc)
        rot == DetectRotation(doc)
        r1 == [NewParseResult EXCEPT
                 !.dxf_version = Some("AC1032"),
                 !.units = Some(GetUnits(doc)),
                 !.layers = ExtractLayers(doc),
                 !.entities = entities,
                 !.bounds = CalculateBounds(entities),
                 !.has_crs = crs[1],
                 !.detected_crs = crs[2],
                 !.has_depth = CheckDepth(entities),
                 !.has_rotation = rot[1],
                 !.rotation_degrees = rot[2]]
        r2 == [r1 EXCEPT !.missing_fields = DetermineMissingFields(r1)]
    IN [r2 EXCEPT !.entities = ApplyLayerTypes(@, BuildLayerTypes(r2.layers)),
                  !.success = TRUE]

\* an error return of job u
JobFail(u, msg) ==
    [jobs EXCEPT ![u].pc = "done", ![u].result.errors = Append(@, msg)]

JobsInit ==
    /\ pin \in JobInputs
    /\ fs = {"input"} \cup (IF pin.sibling THEN {"sibling_dxf"} ELSE {})
    /\ jobs \in [JobIds -> {NewJob(c) : c \in {"output", "timeout"}}]
    /\ parse_pc = "idle"
    /\ dxf_path = "none"
    /\ result = NewParseResult
    /\ layer_types = <<>>

\* lines 118-128 with _convert_dwg_to_dxf: a converted file is moved to the
\* shared path pv_<stem>.dxf, replacing what is there
JobConvert(u) ==
    /\ jobs[u].pc = "start"
    /\ IF ~pin.oda
       THEN IF "sibling_dxf" \in fs
            THEN /\ jobs' = [jobs EXCEPT ![u].pc = "read",
                                         ![u].dxf_path = "sibling_dxf"]
                 /\ UNCHANGED fs
            ELSE /\ jobs' = JobFail(u, "Failed to convert DWG to DXF")
                 /\ UNCHANGED fs
       ELSE IF jobs[u].conv = "output"
            THEN /\ fs' = fs \cup {"tmp_dxf"}
                 /\ jobs' = [jobs EXCEPT ![u].pc = "read", ![u].dxf_path = "tmp_dxf"]
            ELSE /\ jobs' = JobFail(u, "Failed to convert DWG to DXF")
                 /\ UNCHANGED fs
    /\ UNCHANGED <<parse_pc, pin, dxf_path, result, layer_types>>
    /\ UNCHANGED <<xvars, units, task>>

\* ezdxf.readfile (line 133) with the two except clauses
JobRead(u) ==
    /\ jobs[u].pc = "read"
    /\ jobs' = IF jobs[u].dxf_path \notin fs
               THEN JobFail(u, "Unexpected error")
               ELSE IF pin.read = "dxf_error"
               THEN JobFail(u, "DXF parsing error")
               ELSE [jobs EXCEPT ![u].pc = "extract"]
    /\ UNCHANGED pvars
    /\ UNCHANGED <<xvars, units, task>>

\* lines 136-163
JobExtract(u) ==
    /\ jobs[u].pc = "extract"
    /\ jobs' = IF pin.fault # "none"
               THEN JobFail(u, "Unexpected error")
               ELSE [jobs EXCEPT ![u].pc = "finish", ![u].result = ParsedResult(pin.doc)]
    /\ UNCHANGED pvars
    /\ UNCHANGED <<xvars, units, task>>

\* lines 165-178: os.remove(dxf_path), a missing file ignored, and the return
JobFinish(u) ==
    /\ jobs[u].pc = "finish"
    /\ fs' = fs \ {jobs[u].dxf_path}
    /\ jobs' = [jobs EXCEPT ![u].pc = "done"]
    /\ UNCHANGED <<parse_pc, pin, dxf_path, result, layer_types>>
    /\ UNCHANGED <<xvars, units, task>>

JobsNext ==
    \/ \E u \in JobIds : JobConvert(u)
    \/ \E u \in JobIds : JobRead(u)
    \/ \E u \in JobIds : JobExtract(u)
    \/ \E u \in JobIds : JobFinish(u)

----------------------------------------------------------------------------
(* Specifications: one ingestion call, one export call, concurrent export   *)
(* calls                                                                    *)

ParseIdle ==
    /\ parse_pc = "idle"
    /\ pin = ParseInput("dxf", FALSE, FALSE, FALSE, "none", NoRead)
    /\ fs = {}
    /\ dxf_path = "none"
    /\ result = NewParseResult
    /\ layer_types = <<>>

ExportIdle ==
    /\ export_pc = "idle"
    /\ xin = ExportInput("func", "csv", <<>>, OptDefault, "absent", FALSE, TRUE,
                         "none", FALSE)
    /\ files = [q \in {} |-> Stale]
    /\ ret = None
    /\ task_result = None
    /\ calls = {}

UnitsIdle == units = [u \in {} |-> NewUnit]

TaskIdle == task = [NewTask EXCEPT !.pc = "idle"]

JobsIdle == jobs = <<>>

ParseSpecInit == ParseInit /\ ExportIdle /\ UnitsIdle /\ TaskIdle /\ JobsIdle

IngestSpecInit ==
    ParseInit /\ task = NewTask /\ ExportIdle /\ UnitsIdle /\ JobsIdle

ExportSpecInit == ExportInit /\ ParseIdle /\ UnitsIdle /\ TaskIdle /\ JobsIdle

ConcSpecInit == ConcInit /\ ParseIdle /\ TaskIdle /\ JobsIdle

JobsSpecInit == JobsInit /\ ExportIdle /\ UnitsIdle /\ TaskIdle

JobsSpec == JobsSpecInit /\ [][JobsNext]_vars

IngestSpec == IngestSpecInit /\ [][IngestNext]_vars

ParseSpec == ParseSpecInit /\ [][ParseNext]_vars

ExportSpec == ExportSpecInit /\ [][ExportNext]_vars

ConcSpec == ConcSpecInit /\ [][ConcNext]_vars


----------------------------------------------------------------------------
(* Properties: ingestion *)

Classified == parse_pc = "finish" \/ (parse_pc = "done" /\ result.success)

\* the table entries with a keyword occurring, case-insensitively, in the name
MatchingEntries(name) ==
    {k \in 1..Len(ASSET_TYPE_KEYWORDS) :
       \E j \in 1..Len(ASSET_TYPE_KEYWORDS[k].keywords) :
           Contains(Upper(name), Upper(ASSET_TYPE_KEYWORDS[k].keywords[j]))}

\* every layer of the layer table has the type of the first matching table
\* entry, or none when no entry matches
FirstMatchWins ==
    \A i \in 1..Len(result.layers) :
        LET name == result.layers[i].name
            hits == MatchingEntries(name)
        IN IF hits = {} THEN name \notin DOMAIN layer_types
           ELSE /\ name \in DOMAIN layer_types
                /\ \E k \in hits :
                      /\ \A j \in hits : k <= j
                      /\ layer_types[name] = ASSET_TYPE_KEYWORDS[k].asset_type

HasLayer(name) == \E i \in 1..Len(result.layers) : result.layers[i].name = name

\* C1, as amended: classification gives every layer the type of the first
\* keyword-table entry, in table order, with a keyword occurring as a
\* case-insensitive substring of the layer name, and no later entry overrides
\* it; a layer named STORM_DRAIN_SS gets "sewer", whose entry comes first and
\* whose keyword "ss" occurs in the name
C1_FirstMatchInTableOrder ==
    Classified =>
        /\ FirstMatchWins
        /\ HasLayer(LayerStormDrainSS) => layer_types[LayerStormDrainSS] = "sewer"
        /\ \A i \in 1..Len(result.entities) :
               result.entities[i].suggested_type =
                   IF result.entities[i].layer \in DOMAIN layer_types
                   THEN Some(layer_types[result.entities[i].layer])
                   ELSE None

C1_Witness ==
    /\ parse_pc = "done"
    /\ result.success
    /\ HasLayer(LayerStormDrainSS)
    /\ HasLayer(LayerFoTel)
    /\ layer_types[LayerStormDrainSS] = "sewer"
    /\ layer_types[LayerFoTel] = "telecom"

\* C1 as stated: first match in table order, and STORM_DRAIN_SS gets "storm"
C1_Original ==
    Classified =>
        /\ FirstMatchWins
        /\ HasLayer(LayerStormDrainSS) => layer_types[LayerStormDrainSS] = "storm"

HasLabels ==
    \E i \in 1..Len(result.entities) : result.entities[i].suggested_type # None

Missing(field) ==
    \E i \in 1..Len(result.missing_fields) : result.missing_fields[i] = field

\* C2: the missing_fields of a returned result hold "labels" exactly when no
\* entity of the result has a suggested_type
C2_LabelsAfterClassification ==
    (parse_pc = "done" /\ result.success) => (Missing("labels") <=> ~HasLabels)

\* the drawing was read and no step outside the entity loop raised
Extracted == parse_pc = "done" /\ result.dxf_version # None /\ pin.fault = "none"

\* the modelspace entities that yield a record: supported kind, no fault
\* raised while they are read, at least one point
Yielding ==
    {i \in 1..Len(pin.doc.entities) :
       /\ pin.doc.entities[i].kind \in SupportedKinds
       /\ ~pin.doc.entities[i].fault
       /\ pin.doc.entities[i].pts # <<>>}

\* C11: an entity whose extraction raises is skipped and the run goes on: the
\* returned entities are the records of the supported entities that were
\* extracted without a fault, one each, in drawing order, and parse returns
\* success = true
C11_FaultyEntitySkipped ==
    Extracted =>
        /\ result.success
        /\ Len(result.entities) = Cardinality(Yielding)
        /\ \A k \in 1..Len(result.entities) :
               /\ result.entities[k].handle \in Yielding
               /\ result.entities[k].entity_type =
                      pin.doc.entities[result.entities[k].handle].kind
               /\ result.entities[k].layer =
                      pin.doc.entities[result.entities[k].handle].layer
               /\ Len(result.entities[k].points) =
                      Len(pin.doc.entities[result.entities[k].handle].pts)
        /\ \A k \in 1..(Len(result.entities) - 1) :
               result.entities[k].handle < result.entities[k + 1].handle

C11_Witness ==
    /\ Extracted
    /\ Len(pin.doc.entities) = 2
    /\ pin.doc.entities[1].fault
    /\ pin.doc.entities[2].kind = "LINE"
    /\ ~pin.doc.entities[2].fault
    /\ result.success
    /\ Len(result.entities) = 1
    /\ result.entities[1].handle = 2

\* some extracted point lies deeper or higher than 0.001
DeepPoint(points) == \E j \in 1..Len(points) : Abs(points[j][3]) > DEPTH_EPS

\* C12: the has_depth of the returned result is true exactly when some
\* extracted point of some entity has |z| > 0.001, so that a drawing whose
\* largest |z| is 0.001 or less has has_depth = false, and "depth" is in
\* missing_fields exactly when has_depth is false
C12_DrawingDepthThreshold ==
    Extracted =>
        /\ result.has_depth <=>
              \E k \in 1..Len(result.entities) : DeepPoint(result.entities[k].points)
        /\ (\A k \in 1..Len(result.entities) :
                \A j \in 1..Len(result.entities[k].points) :
                    Abs(result.entities[k].points[j][3]) <= DEPTH_EPS)
              => ~result.has_depth
        /\ Missing("depth") <=> ~result.has_depth

C12_Witness ==
    /\ Extracted
    /\ \E k \in 1..Len(result.entities) :
          \E j \in 1..Len(result.entities[k].points) :
              result.entities[k].points[j][3] = DEPTH_EPS
    /\ ~result.has_depth
    /\ Missing("depth")

\* the x (c = 1) or y (c = 2) of every point of every entity that yields a record
Ordinates(c) ==
    UNION {{EntityPoints(pin.doc.entities[i])[j][c] :
              j \in 1..Len(EntityPoints(pin.doc.entities[i]))} : i \in Yielding}

\* C13: the bounds are the least and greatest x and y over the points of the
\* extracted records; an entity of unsupported kind changes nothing; the
\* bounds are absent exactly when no entity yielded a point; the points
\* (0,0),(10,5) and (-3,8) give min = (-3,0), max = (10,8)
C13_BoundsExactMinMax ==
    Extracted =>
        /\ result.bounds = None <=> Ordinates(1) = {}
        /\ result.bounds # None =>
              /\ result.bounds[1].min_x \in Ordinates(1)
              /\ result.bounds[1].max_x \in Ordinates(1)
              /\ result.bounds[1].min_y \in Ordinates(2)
              /\ result.bounds[1].max_y \in Ordinates(2)
              /\ \A x \in Ordinates(1) :
                     result.bounds[1].min_x <= x /\ x <= result.bounds[1].max_x
              /\ \A y \in Ordinates(2) :
                     result.bounds[1].min_y <= y /\ y <= result.bounds[1].max_y
        /\ ( /\ Len(result.entities) = 2
             /\ result.entities[1].points = << <<0, 0, 0>>, <<100000, 50000, 0>> >>
             /\ result.entities[2].points = << <<-30000, 80000, -20000>> >> )
           => result.bounds = Some([min_x |-> -30000, min_y |-> 0,
                                    max_x |-> 100000, max_y |-> 80000])

C13_Witness ==
    /\ Extracted
    /\ Len(pin.doc.entities) = 2
    /\ pin.doc.entities[1].kind = "TEXT"
    /\ pin.doc.entities[2].kind = "CIRCLE"
    /\ result.bounds = Some([min_x |-> -30000, min_y |-> 80000,
                             max_x |-> -30000, max_y |-> 80000])

\* the z values of the points that lie deeper or higher than 0.001
RECURSIVE DeepValues(_)
DeepValues(points) ==
    IF points = <<>> THEN <<>>
    ELSE IF Abs(Head(points)[3]) > DEPTH_EPS
         THEN <<Head(points)[3]>> \o DeepValues(Tail(points))
         ELSE DeepValues(Tail(points))

\* C20: the has_depth of every returned entity is true exactly when one of
\* its points has |z| > 0.001, and its depth_values are the z values that
\* pass that test
C20_EntityDepthThreshold ==
    Extracted =>
        \A k \in 1..Len(result.entities) :
            /\ result.entities[k].has_depth <=> DeepPoint(result.entities[k].points)
            /\ result.entities[k].depth_values = DeepValues(result.entities[k].points)

\* the UCS X direction of the drawing gives an angle of more than 0.1 degree
UcsQualifies ==
    /\ pin.doc.header.ucsxdir # None
    /\ \/ Atan2Deg(pin.doc.header.ucsxdir[1]) > ROTATION_EPS
       \/ Atan2Deg(pin.doc.header.ucsxdir[1]) < -ROTATION_EPS

\* entity i of the modelspace is a block insertion named like a north arrow
IsNorthArrow(i) ==
    /\ pin.doc.entities[i].kind = "INSERT"
    /\ \/ Contains(Upper(pin.doc.entities[i].name), <<"N","O","R","T","H">>)
       \/ Contains(Upper(pin.doc.entities[i].name), <<"N","_","A","R","R","O","W">>)

\* C24: rotation detection is first hit wins: the angle of the UCS X
\* direction when its magnitude exceeds 0.1, else the stored rotation of the
\* first block insertion whose name contains a north-arrow token whatever
\* the case, else has_rotation = false with rotation_degrees = 0; a
\* qualifying UCS angle is never overridden by a north-arrow block
C24_RotationFirstHitWins ==
    Extracted =>
        IF UcsQualifies
        THEN /\ result.has_rotation
             /\ result.rotation_degrees = Atan2Deg(pin.doc.header.ucsxdir[1])
        ELSE IF \E i \in 1..Len(pin.doc.entities) : IsNorthArrow(i)
        THEN /\ result.has_rotation
             /\ \E i \in 1..Len(pin.doc.entities) :
                   /\ IsNorthArrow(i)
                   /\ \A j \in 1..(i - 1) : ~IsNorthArrow(j)
                   /\ result.rotation_degrees = pin.doc.entities[i].rotation
        ELSE /\ ~result.has_rotation
             /\ result.rotation_degrees = 0

C24_Witness ==
    /\ Extracted
    /\ UcsQualifies
    /\ Len(pin.doc.entities) = 3
    /\ IsNorthArrow(2)
    /\ IsNorthArrow(3)
    /\ result.has_rotation
    /\ result.rotation_degrees = 45000

ConversionFailed ==
    /\ pin.suffix = "dwg"
    /\ pin.exists
    /\ IF pin.oda THEN pin.conv # "output" ELSE ~pin.sibling

\* C10: parse always comes to return a ParseResult; success is true exactly
\* when errors is empty; a missing file, a failed or timed-out conversion and
\* an unreadable drawing give success = false with errors
C10_ParseResultConsistent ==
    /\ parse_pc \in {"start", "convert", "read", "extract", "missing", "classify",
                     "finish"} => ENABLED ParseNext
    /\ parse_pc = "done" =>
          /\ result.success <=> result.errors = <<>>
          /\ (~pin.exists \/ ConversionFailed \/ pin.read # "ok")
                => (~result.success /\ result.errors # <<>>)

C10_Witness ==
    /\ parse_pc = "done"
    /\ pin.conv = "timeout"
    /\ ~result.success
    /\ result.errors = <<"Failed to convert DWG to DXF">>


----------------------------------------------------------------------------
(* Properties: export *)

\* the adapter's export() has returned
AdapterReturned == export_pc \in {"returned", "done"} /\ ret # None

ToolPath == xin.format = "fbx" /\ xin.blender # "absent"
DirectPath == xin.format = "fbx" /\ xin.blender = "absent"

\* no collaborator fails: filesystem, mesh library, external tool
FaultFree ==
    /\ xin.fsfault = "none"
    /\ xin.trimesh
    /\ xin.blender \in {"absent", "exit0"}

HasCoordinates(asset) == ExtractCoordinates(asset) # <<>>

WellFormed(asset) ==
    \A i \in 1..Len(ExtractCoordinates(asset)) : ExtractCoordinates(asset)[i].ok

\* the asset has a segment of length 0.001 or more
HasSolid(asset) ==
    LET coords == ExtractCoordinates(asset)
    IN \E i \in 1..(Len(coords) - 1) :
          ~Short(WithDepth(coords[i].v,
                           OrDefault(asset.depth_start, xin.opts.default_depth)),
                 WithDepth(coords[i + 1].v,
                           OrDefault(asset.depth_end, xin.opts.default_depth)))

\* an asset the adapter at hand can export
Valid(asset) ==
    /\ HasCoordinates(asset)
    /\ WellFormed(asset)
    /\ xin.format = "gltf" \/ DirectPath => HasSolid(asset)

\* the file the run is to deliver
Delivered ==
    IF DirectPath /\ ~xin.fbx_native THEN ObjPath ELSE OutputPath(xin.format)

\* C3: after a timeout or a nonzero exit of the external tool, export() of an
\* asset set with an asset of two or more distinct coordinates does not
\* return False without the direct mesh path having been run
C3_FallbackAfterToolFailure ==
    ( /\ AdapterReturned
      /\ xin.format = "fbx"
      /\ xin.blender \in {"timeout", "nonzero"}
      /\ \E i \in 1..Len(xin.assets) : WellFormed(xin.assets[i]) /\ HasSolid(xin.assets[i])
      /\ ret = Some(FALSE) )
    => "_export_fallback" \in calls

C5_NoSuccessWithoutContent ==
    (AdapterReturned /\ ret = Some(TRUE)) =>
        \E q \in DOMAIN files :
            /\ files[q].by = "this"
            /\ files[q].complete
            /\ files[q].data # <<>>

\* this run wrote nothing at path p
Untouched(p) == p \notin DOMAIN files \/ files[p].by = "earlier"

\* C6: GLTFExporter.export returns False and leaves output_path untouched
\* when no asset yields a solid, and returns True only if some asset
\* contributed a segment
C6_GltfZeroSolidsFail ==
    (AdapterReturned /\ xin.format = "gltf") =>
        /\ (~\E i \in 1..Len(xin.assets) :
                WellFormed(xin.assets[i]) /\ HasSolid(xin.assets[i]))
              => (ret = Some(FALSE) /\ Untouched(OutputPath("gltf")))
        /\ ret = Some(TRUE)
              => /\ \E i \in 1..Len(xin.assets) :
                       WellFormed(xin.assets[i]) /\ HasSolid(xin.assets[i])
                 /\ OutputPath("gltf") \in DOMAIN files
                 /\ files[OutputPath("gltf")].data # <<>>

C6_Witness ==
    /\ AdapterReturned
    /\ xin.format = "gltf"
    /\ xin.trimesh
    /\ xin.fsfault = "none"
    /\ xin.assets = <<AssetShort, AssetPoint>>
    /\ ret = Some(FALSE)
    /\ OutputPath("gltf") \notin DOMAIN files

\* the asset list without the assets of zero coordinates
Kept == SelectSeq(xin.assets, HasCoordinates)

\* C7: in every adapter the result and the output are those of the list with
\* the assets of zero coordinates removed, so such an asset contributes no
\* feature, row or solid; and with no collaborator fault a list of valid and
\* zero-coordinate assets with at least one valid asset is exported with
\* success
C7_EmptyAssetOmitted ==
    AdapterReturned =>
        /\ xin.format = "geojson" =>
              /\ ret = Some(TRUE) <=> xin.fsfault = "none"
              /\ ret = Some(TRUE) =>
                    files[OutputPath("geojson")] = Written(Features(Kept, xin.opts))
        /\ xin.format = "csv" =>
              /\ ret = Some(TRUE) <=> (xin.fsfault = "none" /\ ~Rows(Kept).raised)
              /\ xin.fsfault = "none" =>
                    files[OutputPath("csv")].data = Rows(Kept).rows
        /\ xin.format = "gltf" =>
              /\ ret = Some(TRUE) <=>
                    ( /\ xin.fsfault = "none"
                      /\ Meshes(Kept, xin.opts, xin.trimesh) # <<>> )
              /\ ret = Some(TRUE) =>
                    files[OutputPath("gltf")] = Written(Meshes(Kept, xin.opts, TRUE))
        /\ DirectPath =>
              /\ ret = Some(TRUE) <=>
                    ( /\ xin.fsfault = "none"
                      /\ FbxMeshes(Kept, xin.opts, xin.trimesh) # <<>> )
              /\ ret = Some(TRUE) =>
                    files[Delivered] = Written(FbxMeshes(Kept, xin.opts, TRUE))
        /\ ToolPath =>
              /\ ret = Some(TRUE) <=>
                    (xin.blender = "exit0" /\ AssetData(Kept, xin.opts) # <<>>)
              /\ (ret = Some(TRUE) /\ ~ScriptRaises(AssetData(Kept, xin.opts))) =>
                    files[OutputPath("fbx")] = Written(Scene(AssetData(Kept, xin.opts)))
        /\ ( /\ FaultFree
             /\ \E i \in 1..Len(xin.assets) : Valid(xin.assets[i])
             /\ \A i \in 1..Len(xin.assets) :
                    Valid(xin.assets[i]) \/ ~HasCoordinates(xin.assets[i]) )
           => ret = Some(TRUE)

C7_Witness ==
    /\ AdapterReturned
    /\ xin.format = "geojson"
    /\ xin.assets = <<AssetEmpty, AssetLine2>>
    /\ ret = Some(TRUE)
    /\ Len(files[OutputPath("geojson")].data) = 1

\* C8: an export call never ends with an exception escaping the adapter
C8_NoExceptionEscapes == export_pc # "raised"

\* C9: with no collaborator fault, a batch with at least one valid asset is
\* exported with success whatever the other assets are, and the file
\* delivered is complete
C9_BadAssetAbsorbed ==
    ( /\ AdapterReturned
      /\ FaultFree
      /\ \E i \in 1..Len(xin.assets) : Valid(xin.assets[i]) )
    => /\ ret = Some(TRUE)
       /\ Delivered \in DOMAIN files
       /\ files[Delivered].by = "this"
       /\ files[Delivered].complete

\* the asset a feature or a row was written for
SourceAsset(id) == CHOOSE a \in AssetPool \cup SolidAssets : a.id = id

\* the coordinate c as the options ask for it: rounded, with 0 for a missing z
Rounded(c, opts) ==
    <<RoundTo(c[1], opts.precision), RoundTo(c[2], opts.precision),
      IF Len(c) > 2 THEN RoundTo(c[3], opts.precision) ELSE 0>>

GeoJSONWritten ==
    /\ AdapterReturned
    /\ xin.format = "geojson"
    /\ ret = Some(TRUE)

C15_ReprojectThenRound ==
    /\ GeoJSONWritten =>
          \A f \in 1..Len(files[OutputPath("geojson")].data) :
              LET feature == files[OutputPath("geojson")].data[f]
                  given == ExtractCoordinates(SourceAsset(feature.id))
              IN \A i \in 1..Len(given) :
                     feature.coordinates[i] =
                         Rounded(TransformWith(xin.opts, given[i].v), xin.opts)
    /\ (AdapterReturned /\ xin.format = "csv" /\ ret = Some(TRUE)) =>
          \A r \in 1..Len(files[OutputPath("csv")].data) :
              LET row == files[OutputPath("csv")].data[r]
                  given == ExtractCoordinates(SourceAsset(row.id))
                  start == Rounded(TransformWith(xin.opts, given[1].v), xin.opts)
                  end == Rounded(TransformWith(xin.opts, given[Len(given)].v), xin.opts)
              IN /\ row.start_lon = start[1]
                 /\ row.start_lat = start[2]
                 /\ row.end_lon = end[1]
                 /\ row.end_lat = end[2]

\* C16: a run that returns True over whatever an earlier run left behind
\* leaves only what a fresh run leaves: every file is written by this run,
\* whole, and nothing of the earlier run remains at output_path
C16_IdempotentOverwrite ==
    (AdapterReturned /\ ret = Some(TRUE)) =>
        \A q \in DOMAIN files : files[q].by = "this" /\ files[q].complete

CSVWritten ==
    /\ AdapterReturned
    /\ xin.format = "csv"
    /\ ret = Some(TRUE)

\* the depth cell for coordinate c and the stored depth of the asset
DepthCell(c, stored) ==
    IF Len(c) > 2 THEN c[3]
    ELSE IF stored # None THEN stored[1]
    ELSE 0

\* C17: in every row CSVExporter writes, the start point is the asset's first
\* coordinate and the end point its last (the only one, for a single
\* coordinate), and each depth cell is the coordinate's own z when it has a
\* third component, 0 included, else the stored depth_start / depth_end,
\* else 0
C17_RowEndpointsAndDepth ==
    CSVWritten =>
        \A r \in 1..Len(files[OutputPath("csv")].data) :
            LET row == files[OutputPath("csv")].data[r]
                asset == SourceAsset(row.id)
                given == ExtractCoordinates(asset)
                first == given[1].v
                last == given[Len(given)].v
            IN /\ row.start_lon = first[1]
               /\ row.start_lat = first[2]
               /\ row.end_lon = last[1]
               /\ row.end_lat = last[2]
               /\ row.start_depth = DepthCell(first, asset.depth_start)
               /\ row.end_depth = DepthCell(last, asset.depth_end)

C17_Witness ==
    /\ CSVWritten
    /\ xin.assets = <<AssetFlat, AssetPoint>>
    /\ Len(files[OutputPath("csv")].data) = 2
    /\ files[OutputPath("csv")].data[1].start_depth = 0
    /\ files[OutputPath("csv")].data[1].end_depth = 0
    /\ files[OutputPath("csv")].data[2].start_lon = 12000
    /\ files[OutputPath("csv")].data[2].end_lon = 12000
    /\ files[OutputPath("csv")].data[2].end_depth = 0

\* C18: the diameter cell of a row is empty exactly when the asset has no
\* diameter; a stored diameter of 0 is written as 0
C18_EmptyCellOnlyForNoData ==
    CSVWritten =>
        \A r \in 1..Len(files[OutputPath("csv")].data) :
            LET row == files[OutputPath("csv")].data[r]
            IN /\ row.diameter = None <=> SourceAsset(row.id).diameter = None
               /\ SourceAsset(row.id).diameter = Some(0) => row.diameter = Some(0)

\* the filesystem after the file operations ops of the call for format u
RECURSIVE ApplyAll(_, _, _)
ApplyAll(f, ops, u) ==
    IF ops = <<>> THEN f ELSE ApplyAll(ApplyOp(f, Head(ops), u), Tail(ops), u)

\* what the call for format u leaves when it runs alone
Alone(u) == ApplyAll([q \in {} |-> Stale], FileOps(u).ops, u)

AloneResult(u) ==
    IF xin.assets = <<>> THEN Failure("No assets found for project")
    ELSE Report(u, FileOps(u).ret, Alone(u))

\* C19: generate_export calls for different formats of one project, in any
\* interleaving of their file operations, touch no path in common (output
\* file, intermediate files, OBJ file), and each call that has returned
\* reports what it reports alone and leaves at its paths what it leaves alone
C19_FormatsDoNotInterfere ==
    (export_pc = "idle" /\ DOMAIN units = Formats) =>
        /\ \A u, v \in Formats :
               u # v => units[u].touched \cap units[v].touched = {}
        /\ \A q \in DOMAIN files : \E u \in Formats :
               q \in units[u].touched /\ files[q].by = u
        /\ \A u \in Formats :
               units[u].pc = "done" =>
                   /\ units[u].result = AloneResult(u)
                   /\ \A q \in units[u].touched :
                          /\ q \in DOMAIN files <=> q \in DOMAIN Alone(u)
                          /\ q \in DOMAIN files => files[q] = Alone(u)[q]

C19_Witness ==
    /\ DOMAIN units = Formats
    /\ \A u \in Formats : units[u].pc = "done"
    /\ xin.blender = "absent"
    /\ ~xin.fbx_native
    /\ DOMAIN files = {OutputPath("geojson"), OutputPath("csv"), OutputPath("gltf"),
                       ObjPath}
    /\ units["geojson"].result # None
    /\ units["geojson"].result[1].success
    /\ ~units["fbx"].result[1].success

\* a run of the solid generator: GLTFExporter.export or the direct path of
\* FBXExporter, with the mesh library installed
SolidRun ==
    /\ AdapterReturned
    /\ xin.format = "gltf" \/ DirectPath
    /\ xin.trimesh

\* the cylinders the adapter at hand builds for the asset, None for none
MeshOf(asset) ==
    IF xin.format = "gltf" THEN AssetToMesh(asset, xin.opts, TRUE)
    ELSE FbxAssetToMesh(asset, xin.opts, TRUE)

\* the depth the asset stores, or default_depth when it has none (a stored
\* depth of 0 counts as none)
DepthOr(stored) ==
    IF stored = None \/ stored = Some(0) THEN xin.opts.default_depth ELSE stored[1]

\* the 3-D point for coordinate c: a 2-D point gets z = -depth, a 3-D point
\* keeps its z
Lowered(c, depth) == IF Len(c) = 2 THEN <<c[1], c[2], -depth>> ELSE c

Ends(asset, i) ==
    << Lowered(ExtractCoordinates(asset)[i].v, DepthOr(asset.depth_start)),
       Lowered(ExtractCoordinates(asset)[i + 1].v, DepthOr(asset.depth_end)) >>

\* the segment from a to b is 0.001 long or longer
AtLeastEps(a, b) ==
    \/ \E j \in 1..3 : Abs(b[j] - a[j]) >= SEGMENT_EPS
    \/ Sq(b[1] - a[1]) + Sq(b[2] - a[2]) + Sq(b[3] - a[3]) >= Sq(SEGMENT_EPS)

\* the segments of the asset that are 0.001 long or longer
LongSegments(asset) ==
    {i \in 1..(Len(ExtractCoordinates(asset)) - 1) :
       AtLeastEps(Ends(asset, i)[1], Ends(asset, i)[2])}

\* the segment a cylinder of the asset was built for
SegmentOf(asset, cyl) ==
    CHOOSE i \in 1..(Len(ExtractCoordinates(asset)) - 1) :
        cyl.start = Ends(asset, i)[1] /\ cyl.end = Ends(asset, i)[2]

\* the assets of the run that contribute a solid
Contributing == {k \in 1..Len(xin.assets) : MeshOf(xin.assets[k]) # None}

\* C22: a segment gives a cylinder exactly when its 3-D length is 0.001 or
\* more; a shorter one is skipped and the later ones are still built, in
\* order; an asset without such a segment, or with fewer than 2 coordinates,
\* contributes nothing, and the solids of the other assets are written
C22_ShortSegmentsSkipped ==
    SolidRun =>
        /\ \A k \in 1..Len(xin.assets) :
               LET asset == xin.assets[k]
                   mesh == MeshOf(asset)
               IN WellFormed(asset) =>
                    /\ mesh = None <=> LongSegments(asset) = {}
                    /\ mesh # None =>
                          /\ Len(mesh[1]) = Cardinality(LongSegments(asset))
                          /\ \A c \in 1..Len(mesh[1]) :
                                 SegmentOf(asset, mesh[1][c]) \in LongSegments(asset)
                          /\ \A c \in 1..(Len(mesh[1]) - 1) :
                                 SegmentOf(asset, mesh[1][c])
                                     < SegmentOf(asset, mesh[1][c + 1])
        /\ xin.fsfault = "none" => (ret = Some(TRUE) <=> Contributing # {})
        /\ ret = Some(TRUE) => Len(files[Delivered].data) = Cardinality(Contributing)

C22_Witness ==
    /\ SolidRun
    /\ xin.format = "gltf"
    /\ xin.assets = <<AssetShort, AssetEdge>>
    /\ ret = Some(TRUE)
    /\ Len(files[OutputPath("gltf")].data) = 1
    /\ Len(files[OutputPath("gltf")].data[1]) = 2
    /\ files[OutputPath("gltf")].data[1][1].height = [exact |-> FALSE, v |-> 100]
    /\ files[OutputPath("gltf")].data[1][2].start = <<6, 8, 9>>

\* the norm of the cross product of the z axis and the unit direction from a
\* to b exceeds 0.001: (dx^2 + dy^2) * 999999 > dz^2
OffAxis(a, b) ==
    IF b[1] = a[1] /\ b[2] = a[2] THEN FALSE
    ELSE Sq(b[1] - a[1]) + Sq(b[2] - a[2]) > Sq(b[3] - a[3]) \div 999999

\* the height recorded for a cylinder is the distance from a to b
HeightIs(height, a, b) ==
    IF height.exact
    THEN /\ \E k \in 1..3 : \A j \in (1..3) \ {k} : b[j] = a[j]
         /\ \E k \in 1..3 : height.v = Abs(b[k] - a[k])
    ELSE height.v = Sq(b[1] - a[1]) + Sq(b[2] - a[2]) + Sq(b[3] - a[3])

----------------------------------------------------------------------------
(* Properties: the ingestion task *)

Phases == <<"PARSING", "THUMBNAIL", "STORING">>

\* C25: process_dwg_upload reports its phases in the order parsing,
\* generating preview, storing; after a failed parse no later phase is
\* reported and the dict is success=false with the parse errors; with
\* undefined drawing bounds the preview is not produced and the dict is
\* still success=true, with thumbnail_path absent
C25_PhasesAndInsufficientData ==
    /\ Len(task.states) <= 3
    /\ \A i \in 1..Len(task.states) : task.states[i] = Phases[i]
    /\ Len(task.states) >= 2 => parse_pc = "done" /\ result.success
    /\ task.pc = "done" /\ ~result.success =>
          /\ task.states = <<"PARSING">>
          /\ ~task.ret[1].success
          /\ task.ret[1].errors = result.errors
          /\ result.errors # <<>>
    /\ task.pc = "done" /\ result.success =>
          /\ task.states = Phases
          /\ task.ret[1].success
          /\ result.bounds = None =>
                /\ task.ret[1].thumbnail_path = None
                /\ "thumbnail" \notin fs

C25_Witness ==
    /\ task.pc = "done"
    /\ result.success
    /\ result.bounds = None
    /\ Len(pin.doc.entities) = 2
    /\ task.states = Phases
    /\ task.ret[1].success
    /\ task.ret[1].thumbnail_path = None

----------------------------------------------------------------------------
(* Properties: files on the ingestion side *)

\* C26: parse never deletes a file that existed before the call: once it
\* has returned, the input drawing and the sibling .dxf used as fallback
\* when the converter is absent still exist
C26_PreexistingFilesKept ==
    parse_pc = "done" =>
        /\ pin.exists => "input" \in fs
        /\ pin.sibling => "sibling_dxf" \in fs

\* C27: every intermediate file of a unit of work is gone when the unit
\* returns: once the FBX adapter has returned, on whatever path, the data
\* file and the generation script of the tool run no longer exist
C27_IntermediateFilesRemoved ==
    ret # None =>
        /\ DataPath \notin DOMAIN files
        /\ ScriptPath \notin DOMAIN files

----------------------------------------------------------------------------
(* Properties: the pipe as a chain of cylinders *)

\* the segment that gives cylinder c of the asset's solid: the c-th of the
\* segments that are 0.001 long or longer
NthLong(asset, c) ==
    CHOOSE i \in LongSegments(asset) :
        Cardinality({j \in LongSegments(asset) : j <= i}) = c

\* the asset's solid has one cylinder for each such segment
Chain(asset) ==
    /\ WellFormed(asset)
    /\ MeshOf(asset) # None
    /\ Len(MeshOf(asset)[1]) = Cardinality(LongSegments(asset))

\* cylinders c and c + 1 of the asset's solid were built for two consecutive
\* segments
Adjacent(asset, c) == NthLong(asset, c + 1) = NthLong(asset, c) + 1

\* the coordinate shared by the segments of cylinders c and c + 1
SharedPoint(asset, c) == ExtractCoordinates(asset)[NthLong(asset, c) + 1].v

\* C28 as stated: for every asset with three or more coordinates the end
\* point of the cylinder of segment i is the start point of the cylinder of
\* segment i + 1, whatever depth_start and depth_end are
C28_Original ==
    SolidRun =>
        \A k \in 1..Len(xin.assets) :
            LET asset == xin.assets[k]
                mesh == MeshOf(asset)
            IN Chain(asset) =>
                 \A c \in 1..(Len(mesh[1]) - 1) :
                     Adjacent(asset, c) => mesh[1][c].end = mesh[1][c + 1].start

\* C28 amended: the end point of the cylinder of segment i is the start
\* point of the cylinder of segment i + 1 when the coordinate they share is
\* 3-D, or when depth_start and depth_end (default_depth for a missing or
\* zero one) are equal; a shared 2-D point with differing depths gets
\* z = -depth_end as the end of segment i and z = -depth_start as the start
\* of segment i + 1
C28_ConnectedWhenDepthsAgree ==
    SolidRun =>
        \A k \in 1..Len(xin.assets) :
            LET asset == xin.assets[k]
                mesh == MeshOf(asset)
            IN Chain(asset) =>
                 \A c \in 1..(Len(mesh[1]) - 1) :
                     Adjacent(asset, c) =>
                         LET p == SharedPoint(asset, c)
                         IN IF Len(p) = 3 \/ DepthOr(asset.depth_start) = DepthOr(asset.depth_end)
                            THEN mesh[1][c].end = mesh[1][c + 1].start
                            ELSE /\ mesh[1][c].end = <<p[1], p[2], -DepthOr(asset.depth_end)>>
                                 /\ mesh[1][c + 1].start =
                                        <<p[1], p[2], -DepthOr(asset.depth_start)>>

C28_Witness ==
    /\ SolidRun
    /\ xin.format = "gltf"
    /\ ret = Some(TRUE)
    /\ xin.assets = <<AssetBend>>
    /\ Len(files[OutputPath("gltf")].data[1]) = 2
    /\ files[OutputPath("gltf")].data[1][1].end = <<5000, 0, -10000>>
    /\ files[OutputPath("gltf")].data[1][2].start = <<5000, 0, -10000>>

----------------------------------------------------------------------------
(* Properties: concurrent ingestion *)

\* the result of job u when no other call runs
JobAlone(u) ==
    IF (pin.oda /\ jobs[u].conv # "output") \/ (~pin.oda /\ ~pin.sibling)
    THEN [NewParseResult EXCEPT !.errors = <<"Failed to convert DWG to DXF">>]
    ELSE IF pin.read = "dxf_error"
    THEN [NewParseResult EXCEPT !.errors = <<"DXF parsing error">>]
    ELSE IF pin.fault # "none"
    THEN [NewParseResult EXCEPT !.errors = <<"Unexpected error">>]
    ELSE ParsedResult(pin.doc)

\* C29: concurrent ingestion calls do not interfere: the converted file a
\* call is about to read is not removed by another call, and the parse
\* result of every call is the one it produces when it runs alone
C29_IngestionUnitsIndependent ==
    pin.oda =>
        \A u \in JobIds :
            /\ jobs[u].pc = "read" => jobs[u].dxf_path \in fs
            /\ jobs[u].pc = "done" => jobs[u].result = JobAlone(u)

----------------------------------------------------------------------------
(* Properties: the two mesh paths of the FBX adapter *)

\* the tool wrote the target file
ToolRun ==
    /\ xin.format = "fbx"
    /\ "_export_with_blender" \in calls
    /\ "_export_fallback" \notin calls
    /\ ret = Some(TRUE)

\* the segments the generation script builds for the asset
ToolPipe(asset) == CreatePipeFromAsset(AssetData(<<asset>>, xin.opts)[1])

\* the cylinders the direct path builds for the asset
DirectPipe(asset) == FbxSegments(asset, ExtractCoordinates(asset), xin.opts, 1)

\* C30: the external-tool mesh path and the direct mesh path build the same
\* pipe for the same asset and options: the same segments are skipped, and
\* every segment has the same 3-D start point, end point and radius on both
C30_ToolAndDirectPathAgree ==
    ToolRun =>
        \A k \in 1..Len(xin.assets) :
            LET asset == xin.assets[k]
            IN WellFormed(asset) /\ Len(ExtractCoordinates(asset)) >= 2 =>
                 /\ Len(ToolPipe(asset)) = Len(DirectPipe(asset))
                 /\ \A c \in 1..Len(ToolPipe(asset)) :
                        /\ ToolPipe(asset)[c].start = DirectPipe(asset)[c].start
                        /\ ToolPipe(asset)[c].end = DirectPipe(asset)[c].end
                        /\ ToolPipe(asset)[c].radius = DirectPipe(asset)[c].radius

====
